---- MODULE Spec2Model ----
(***************************************************************************)
(* Excel dashboard: the spreadsheet fetcher with its in-memory cache       *)
(* (fetch_excel), the source resolver (_to_export_url), the row filters    *)
(* (filter_df and the field filter of /api/filter and /api/counts).        *)
(*                                                                         *)
(* The repository ships the same service three times: app.py (Flask        *)
(* server), netlify/functions/api.py (the same fetch_excel as app.py) and  *)
(* api/index.py (its own fetch_excel).  The variable deploy says which     *)
(* one is running.                                                         *)
(***************************************************************************)
EXTENDS Integers, Sequences, FiniteSets, TLC

\* ------------------------------------------------------------------------
\* Bounds of the model
\* ------------------------------------------------------------------------
\* request threads that may run fetch_excel at the same time
NThreads == 2
\* how often the wall clock advances in one behaviour
MaxTicks == 3
\* how many HTTP requests are issued in one behaviour
MaxFetches == 3

\* ------------------------------------------------------------------------
\* Program constants
\* ------------------------------------------------------------------------
\* app.py: CACHE_SECONDS = 60
CACHE_SECONDS == 60
\* api/index.py: CACHE_DURATION = timedelta(minutes=5), in seconds
CACHE_DURATION == 300
\* datetime.timedelta keeps (days, seconds, microseconds) with
\* 0 <= seconds < 86400; .seconds reads the middle field only
SecondsPerDay == 86400

\* Python's None; a value that is present is a non-empty tuple
None == <<>>
\* fetch_excel raised
Error == <<"error">>
\* the DataFrame parsed from the n-th HTTP response
Df(n) == <<"df", n>>
\* a datetime, in seconds
At(t) == <<t>>
TimeOf(x) == x[1]
\* no HTTP request made
NoResp == "none"

Threads == 1..NThreads
Deploys == {"app", "index"}
\* the wall clock advances by one of these amounts (seconds)
TickSteps == {30, 300, SecondsPerDay}
\* what requests.get / raise_for_status / pd.read_excel can do
Failures == {"network_error", "http_status", "parse_error"}
Outcomes == {"ok"} \cup Failures

VARIABLES
    deploy,        \* which entry point runs: "app" (app.py, netlify) or "index"
    sheet_url_set, \* api/index.py: os.environ has EXCEL_SHEET_URL
    workers,       \* the threads the server runs requests on
    now,           \* wall clock, seconds
    ticks,         \* clock advances so far
    df_cache,      \* _df_cache: None or the cached table
    last_fetched,  \* _last_fetched / _df_last_fetched: None or a time
    http_count,    \* requests.get calls issued so far
    stamp_of,      \* history: the fetch whose call wrote last_fetched
    pc,            \* per thread: position in fetch_excel
    loc_now,       \* per thread: local now (app.py line 95)
    seen,          \* per thread: <<_df_cache, _last_fetched, now>> as the cache test read them
    resp,          \* per thread: outcome of this call's HTTP request, NoResp if none
    loc_df,        \* per thread: local df parsed from the response
    ret,           \* per thread: what fetch_excel returned, Error if it raised
    url, resolved, resolved_again, \* source resolver
    tbl, today, req, out,          \* row filter
    arg,           \* the table handed to filter_df, as the call leaves it
    body           \* the body of the answer

cacheVars == <<deploy, sheet_url_set, workers, now, ticks, df_cache, last_fetched,
               http_count, stamp_of, pc, loc_now, seen, resp, loc_df, ret>>
urlVars == <<url, resolved, resolved_again>>
filterVars == <<tbl, today, req, out, arg, body>>
vars == <<cacheVars, urlVars, filterVars>>

\* ------------------------------------------------------------------------
\* fetch_excel: the cache test
\* ------------------------------------------------------------------------
\* (a - b).seconds of two datetimes: the seconds field of the normalised
\* timedelta, i.e. the difference modulo one day
TimedeltaSeconds(a, b) == (a - b) % SecondsPerDay

\* the comparison turned round
FreshAppInverted(t, last) == TimedeltaSeconds(t, last) >= CACHE_SECONDS
\* app.py 96: (now - _last_fetched).seconds < CACHE_SECONDS
FreshApp(t, last) == TimedeltaSeconds(t, last) < CACHE_SECONDS

\* api/index.py 73: datetime.now() - _df_last_fetched < CACHE_DURATION
FreshIndex(t, last) == t - last < CACHE_DURATION

\* the whole condition of the if: cache present, timestamp present, fresh
CacheHit(d, cache, last, t) ==
    /\ cache # None
    /\ last # None
    /\ IF d = "app" THEN FreshApp(TimeOf(t), TimeOf(last))
                    ELSE FreshIndex(TimeOf(t), TimeOf(last))

\* the configured cache duration of the running entry point
CacheWindow(d) == IF d = "app" THEN CACHE_SECONDS ELSE CACHE_DURATION

\* ------------------------------------------------------------------------
\* fetch_excel, one step per access to the shared cache or the network
\* ------------------------------------------------------------------------
\* calls under way that may still issue their HTTP request
Pending == Cardinality({u \in Threads : pc[u] \in {"check", "request"}})

\* a request thread enters fetch_excel; app.py 95 reads the clock first
Call(t) ==
    /\ pc[t] = "idle"
    /\ http_count + Pending < MaxFetches
    /\ pc' = [pc EXCEPT ![t] = "check"]
    /\ loc_now' = [loc_now EXCEPT ![t] = IF deploy = "app" THEN At(now) ELSE None]
    /\ UNCHANGED <<urlVars, filterVars, deploy, sheet_url_set, workers, now, ticks, df_cache, last_fetched,
                   http_count, stamp_of, seen, resp, loc_df, ret>>

\* the instant the cache test compares with: app.py uses the local now of
\* line 95, api/index.py reads datetime.now() inside the test
CheckTime(t) == IF deploy = "app" THEN loc_now[t] ELSE At(now)

\* api/index.py 75-77: no EXCEL_SHEET_URL raises ValueError before any request
ConfigMissing == deploy = "index" /\ ~sheet_url_set

\* app.py 96-97, api/index.py 73-77: the cache test and, on a hit, the return
Check(t) ==
    /\ pc[t] = "check"
    /\ seen' = [seen EXCEPT ![t] = <<df_cache, last_fetched, CheckTime(t)>>]
    /\ IF CacheHit(deploy, df_cache, last_fetched, CheckTime(t))
       THEN /\ ret' = [ret EXCEPT ![t] = df_cache]
            /\ pc' = [pc EXCEPT ![t] = "done"]
       ELSE IF ConfigMissing
            THEN /\ ret' = [ret EXCEPT ![t] = Error]
                 /\ pc' = [pc EXCEPT ![t] = "done"]
            ELSE /\ ret' = ret
                 /\ pc' = [pc EXCEPT ![t] = "request"]
    /\ UNCHANGED <<urlVars, filterVars, deploy, sheet_url_set, workers, now, ticks, df_cache, last_fetched,
                   http_count, stamp_of, loc_now, resp, loc_df>>

\* a fetch that stamps the cache before it knows the request succeeded
RequestStampsFirst(t, o) ==
    /\ pc[t] = "request"
    /\ http_count' = http_count + 1
    /\ resp' = [resp EXCEPT ![t] = o]
    /\ last_fetched' = CheckTime(t)
    /\ IF o = "ok"
       THEN /\ loc_df' = [loc_df EXCEPT ![t] = Df(http_count + 1)]
            /\ pc' = [pc EXCEPT ![t] = "store_df"]
            /\ ret' = ret
       ELSE /\ loc_df' = loc_df
            /\ pc' = [pc EXCEPT ![t] = "done"]
            /\ ret' = [ret EXCEPT ![t] = Error]
    /\ UNCHANGED <<urlVars, filterVars, deploy, sheet_url_set, workers, now, ticks,
                   df_cache, stamp_of, loc_now, seen>>

\* a fetch that falls back to the stale table when the refetch fails
ServeStaleOnFailure(cache) == IF cache # None THEN cache ELSE Error
\* app.py 128-133: both except clauses re-raise; api/index.py has no handler,
\* so the exception leaves fetch_excel as well
OnFailure(cache) == Error

\* app.py 105-111, api/index.py 79-82: requests.get, raise_for_status and
\* pd.read_excel; whatever fails raises before the cache is touched
Request(t, o) ==
    /\ pc[t] = "request"
    /\ http_count' = http_count + 1
    /\ resp' = [resp EXCEPT ![t] = o]
    /\ IF o = "ok"
       THEN /\ loc_df' = [loc_df EXCEPT ![t] = Df(http_count + 1)]
            /\ pc' = [pc EXCEPT ![t] = "store_df"]
            /\ ret' = ret
       ELSE /\ loc_df' = loc_df
            /\ pc' = [pc EXCEPT ![t] = "done"]
            /\ ret' = [ret EXCEPT ![t] = OnFailure(df_cache)]
    /\ UNCHANGED <<urlVars, filterVars, deploy, sheet_url_set, workers, now, ticks, df_cache, last_fetched,
                   stamp_of, loc_now, seen>>

\* app.py 124, api/index.py 83: _df_cache = df
StoreDf(t) ==
    /\ pc[t] = "store_df"
    /\ df_cache' = loc_df[t]
    /\ pc' = [pc EXCEPT ![t] = "store_ts"]
    /\ UNCHANGED <<urlVars, filterVars, deploy, sheet_url_set, workers, now, ticks, last_fetched,
                   http_count, stamp_of, loc_now, seen, resp, loc_df, ret>>

\* app.py 125-126: _last_fetched = now (the local of line 95); return df
\* api/index.py 84-85: _df_last_fetched = datetime.now(); return df.copy()
StoreTs(t) ==
    /\ pc[t] = "store_ts"
    /\ last_fetched' = IF deploy = "app" THEN loc_now[t] ELSE At(now)
    /\ stamp_of' = loc_df[t]
    /\ ret' = [ret EXCEPT ![t] = loc_df[t]]
    /\ pc' = [pc EXCEPT ![t] = "done"]
    /\ UNCHANGED <<urlVars, filterVars, deploy, sheet_url_set, workers, now, ticks, df_cache,
                   http_count, loc_now, seen, resp, loc_df>>

\* the request is answered and the thread is free for the next one
Finish(t) ==
    /\ pc[t] = "done"
    /\ pc' = [pc EXCEPT ![t] = "idle"]
    /\ loc_now' = [loc_now EXCEPT ![t] = None]
    /\ seen' = [seen EXCEPT ![t] = None]
    /\ resp' = [resp EXCEPT ![t] = NoResp]
    /\ loc_df' = [loc_df EXCEPT ![t] = None]
    /\ ret' = [ret EXCEPT ![t] = None]
    /\ UNCHANGED <<urlVars, filterVars, deploy, sheet_url_set, workers, now, ticks, df_cache, last_fetched,
                   http_count, stamp_of>>

\* time passes (datetime.now advances)
Tick(d) ==
    /\ ticks < MaxTicks
    /\ now' = now + d
    /\ ticks' = ticks + 1
    /\ UNCHANGED <<urlVars, filterVars, deploy, sheet_url_set, workers, df_cache, last_fetched,
                   http_count, stamp_of, pc, loc_now, seen, resp, loc_df, ret>>

\* app.py 263-279: api_data answers 200 with the table, 500 when fetch_excel raised
ApiDataStatus(r) == IF r = Error THEN 500 ELSE 200

\* a health check that reports the entry only while it is fresh
CacheStatusWhileFresh ==
    IF CacheHit(deploy, df_cache, last_fetched, At(now)) THEN "active" ELSE "empty"
\* app.py 496-503: health_check
CacheStatus == IF df_cache # None THEN "active" ELSE "empty"

\* app.py 52-53, api/index.py 39-40: the module globals at process start
InitCache(w) ==
    /\ deploy \in Deploys
    /\ sheet_url_set \in (IF deploy = "index" THEN BOOLEAN ELSE {TRUE})
    /\ workers = w
    /\ now = 0
    /\ ticks = 0
    /\ df_cache = None
    /\ last_fetched = None
    /\ http_count = 0
    /\ stamp_of = None
    /\ pc = [t \in Threads |-> "idle"]
    /\ loc_now = [t \in Threads |-> None]
    /\ seen = [t \in Threads |-> None]
    /\ resp = [t \in Threads |-> NoResp]
    /\ loc_df = [t \in Threads |-> None]
    /\ ret = [t \in Threads |-> None]

UrlIdle == url = None /\ resolved = None /\ resolved_again = None
FilterIdle ==
    /\ tbl = [cols |-> <<>>, rows |-> <<>>]
    /\ today = 0
    /\ req = [endpoint |-> "none"]
    /\ out = [status |-> 0]
    /\ arg = [cols |-> <<>>, rows |-> <<>>]
    /\ body = [keys |-> {}]

Next ==
    \/ \E t \in workers : Call(t)
    \/ \E t \in workers : Check(t)
    \/ \E t \in workers : \E o \in Outcomes : Request(t, o)
    \/ \E t \in workers : StoreDf(t)
    \/ \E t \in workers : StoreTs(t)
    \/ \E t \in workers : Finish(t)
    \/ \E d \in TickSteps : Tick(d)

\* the server with its request threads (app.run, Flask's threaded server)
Init == InitCache(Threads) /\ UrlIdle /\ FilterIdle
Spec == Init /\ [][Next]_vars

\* one request at a time
InitSeq == InitCache({1}) /\ UrlIdle /\ FilterIdle
SpecSeq == InitSeq /\ [][Next]_vars

\* GET /health between two requests: app.py 496-503 and
\* netlify/functions/api.py 471-478 answer with the cache flag; api/index.py
\* has no such route, its 404 handler (275-277) answers
HealthCheck ==
    /\ \A t \in workers : pc[t] = "idle"
    /\ req' = [endpoint |-> "health"]
    /\ out' = [status |-> IF deploy = "index" THEN 404 ELSE 200]
    /\ body' = IF deploy = "index" THEN [keys |-> {"error"}]
               ELSE [keys |-> {"status", "timestamp", "cache_status"},
                     cache_status |-> CacheStatus]
    /\ UNCHANGED <<cacheVars, urlVars, tbl, today, arg>>

NextHealth ==
    \/ Next
    \/ HealthCheck
\* requests served one at a time, health checks among them
SpecHealth == InitSeq /\ [][NextHealth]_vars

\* ------------------------------------------------------------------------
\* Claims about the cache
\* ------------------------------------------------------------------------
\* what the cache test of thread t read
SeenCache(t) == seen[t][1]
SeenStamp(t) == seen[t][2]
SeenAge(t) == TimeOf(seen[t][3]) - TimeOf(seen[t][2])
SeenEntry(t) == seen[t] # None /\ SeenCache(t) # None /\ SeenStamp(t) # None
AllIdle == \A t \in Threads : pc[t] = "idle"

\* C1: a call made while a cache entry exists whose age is below the cache
\* duration returns the cached table and issues no HTTP request (so calls
\* that follow one another inside one cache window add no network fetch).
C1_FreshEntryServedWithoutRequest ==
    \A t \in Threads :
        (SeenEntry(t) /\ 0 <= SeenAge(t) /\ SeenAge(t) < CacheWindow(deploy))
            => /\ pc[t] = "done"
               /\ ret[t] = SeenCache(t)
               /\ resp[t] = NoResp

\* a call 30 seconds after the fetch was answered from the cache
C1_Witness ==
    \E t \in Threads :
        /\ SeenEntry(t) /\ SeenAge(t) = 30
        /\ pc[t] = "done" /\ ret[t] = SeenCache(t) /\ resp[t] = NoResp
        /\ http_count = 1

\* C2: a cache entry whose age is at least the cache duration, however
\* large, is never returned as fresh: the call refetches.
C2_ExpiredEntryRefetched ==
    \A t \in Threads :
        (SeenEntry(t) /\ SeenAge(t) >= CacheWindow(deploy))
            => ~(pc[t] = "done" /\ resp[t] = NoResp /\ ret[t] = SeenCache(t))

\* C3: a refetch that fails leaves the cached table and its timestamp
\* exactly as the call found them.
C3_FailedFetchKeepsEntry ==
    \A t \in Threads :
        (pc[t] = "done" /\ resp[t] \in Failures)
            => /\ df_cache = SeenCache(t)
               /\ last_fetched = SeenStamp(t)

\* a refetch of an expired entry failed and the entry is still there
C3_Witness ==
    \E t \in Threads :
        /\ pc[t] = "done" /\ resp[t] \in Failures
        /\ SeenEntry(t)
        /\ df_cache = SeenCache(t) /\ last_fetched = SeenStamp(t)

\* C4 as claimed: fetch_excel raises only when no prior cache entry exists;
\* with a prior entry the caller gets the stale table.
C4_ErrorOnlyWithoutCache ==
    \A t \in Threads :
        (pc[t] = "done" /\ ret[t] = Error) => SeenCache(t) = None

\* C4 amended: a failed fetch or parse always reaches the caller as an
\* error, with or without a prior entry; api_data answers 500.
C4_FailureAlwaysPropagates ==
    \A t \in Threads :
        (pc[t] = "done" /\ resp[t] \in Failures)
            => /\ ret[t] = Error
               /\ ApiDataStatus(ret[t]) = 500

\* a refetch failed while an expired entry existed, and the caller got the error
C4_Witness ==
    \E t \in Threads :
        /\ pc[t] = "done" /\ resp[t] \in Failures
        /\ SeenEntry(t)
        /\ ret[t] = Error

\* C5: check, fetch and replace are one critical section: at most one
\* request at a time is between the failed cache test and the replacement.
C5_OneRefetchAtATime ==
    Cardinality({t \in Threads : pc[t] \in {"request", "store_df", "store_ts"}}) <= 1

\* the cached table and the timestamp were written by the same fetch
PairConsistent ==
    \/ df_cache = None /\ last_fetched = None
    \/ df_cache # None /\ last_fetched # None /\ stamp_of = df_cache

\* C6: the entry is replaced atomically: whenever a request is about to
\* read the cache, and when all calls are finished, table and timestamp
\* come from the same fetch.
C6_TableAndStampFromSameFetch ==
    ((\E t \in Threads : pc[t] = "check") \/ AllIdle) => PairConsistent

\* ------------------------------------------------------------------------
\* Strings: a str is the tuple of its characters
\* ------------------------------------------------------------------------
\* sub in s
Contains(s, sub) ==
    \E i \in 1..(Len(s) - Len(sub) + 1) : SubSeq(s, i, i + Len(sub) - 1) = sub

\* s.replace(old, new): every non-overlapping occurrence, left to right
RECURSIVE Replace(_, _, _)
Replace(s, old, new) ==
    IF Len(s) < Len(old) THEN s
    ELSE IF SubSeq(s, 1, Len(old)) = old
         THEN new \o Replace(SubSeq(s, Len(old) + 1, Len(s)), old, new)
         ELSE <<s[1]>> \o Replace(SubSeq(s, 2, Len(s)), old, new)

\* ------------------------------------------------------------------------
\* _to_export_url
\* ------------------------------------------------------------------------
SheetsHost == <<"d", "o", "c", "s", ".", "g", "o", "o", "g", "l", "e", ".", "c", "o", "m", "/", "s", "p", "r", "e", "a", "d", "s", "h", "e", "e", "t", "s">>
GoogleSheetsD == <<"g", "o", "o", "g", "l", "e", ".", "c", "o", "m", "/", "s", "p", "r", "e", "a", "d", "s", "h", "e", "e", "t", "s", "/", "d", "/">>
SlashD == <<"/", "d", "/">>
SlashExport == <<"/", "e", "x", "p", "o", "r", "t">>
SlashEdit == <<"/", "e", "d", "i", "t">>
ExportSuffix == <<"/", "e", "x", "p", "o", "r", "t", "?", "f", "o", "r", "m", "a", "t", "=", "x", "l", "s", "x">>
ExportPrefix == <<"h", "t", "t", "p", "s", ":", "/", "/", "d", "o", "c", "s", ".", "g", "o", "o", "g", "l", "e", ".", "c", "o", "m", "/", "s", "p", "r", "e", "a", "d", "s", "h", "e", "e", "t", "s", "/", "d", "/">>

\* the character class [a-zA-Z0-9_-] of the regular expression, over the
\* characters the modelled URLs are made of
IdChars == {"a", "b", "x", "y", "Z", "0", "1", "_", "-"}

\* length of the longest run of identifier characters of s that starts at j
RECURSIVE IdRun(_, _)
IdRun(s, j) == IF j <= Len(s) /\ s[j] \in IdChars THEN 1 + IdRun(s, j + 1) ELSE 0

\* re.search(r"/d/([a-zA-Z0-9_-]+)/", url) matches at position i
MatchesAt(s, i) ==
    /\ i + 2 <= Len(s)
    /\ SubSeq(s, i, i + 2) = SlashD
    /\ IdRun(s, i + 3) >= 1
    /\ i + 3 + IdRun(s, i + 3) <= Len(s)
    /\ s[i + 3 + IdRun(s, i + 3)] = "/"

\* m.group(1) of the leftmost match, None when there is no match
SheetId(s) ==
    LET hits == {i \in 1..Len(s) : MatchesAt(s, i)}
    IN  IF hits = {} THEN None
        ELSE LET i == CHOOSE k \in hits : \A h \in hits : k <= h
             IN  SubSeq(s, i + 3, i + 2 + IdRun(s, i + 3))

\* app.py 77-87 (netlify/functions/api.py 71-81)
ToExportUrlApp(u) ==
    IF ~Contains(u, SheetsHost) \/ Contains(u, SlashExport) THEN u
    ELSE IF SheetId(u) # None
         THEN ExportPrefix \o SheetId(u) \o ExportSuffix
         ELSE u

\* api/index.py 60-64
ToExportUrlIndex(u) ==
    IF Contains(u, GoogleSheetsD) /\ Contains(u, SlashEdit)
    THEN Replace(u, SlashEdit, ExportSuffix)
    ELSE u

\* _to_export_url of the running entry point
ToExportUrl(d, u) == IF d = "app" THEN ToExportUrlApp(u) ELSE ToExportUrlIndex(u)

\* the URLs tried: scheme and host, the /d/<id> part, the rest
UrlBases == {<<"h", "t", "t", "p", "s", ":", "/", "/", "d", "o", "c", "s", ".", "g", "o", "o", "g", "l", "e", ".", "c", "o", "m", "/", "s", "p", "r", "e", "a", "d", "s", "h", "e", "e", "t", "s">>,
             <<"h", "t", "t", "p", "s", ":", "/", "/", "e", "x", "a", "m", "p", "l", "e", ".", "c", "o", "m", "/", "f", "i", "l", "e", "s">>}
UrlIds == {<<"a", "1">>, <<"x", "_", "y", "-", "Z", "0">>, <<"a", ".", "b">>}
UrlMids == {<<>>} \cup {SlashD \o i : i \in UrlIds}
               \cup {<<"/", "u", "/", "0">> \o SlashD \o i : i \in UrlIds}
UrlTails == {<<>>, <<"/">>, <<"/", "e", "d", "i", "t">>,
             <<"/", "e", "d", "i", "t", "?", "u", "s", "p", "=", "s", "h", "a", "r", "i", "n", "g">>,
             <<"/", "e", "d", "i", "t", "#", "g", "i", "d", "=", "0">>,
             <<"/", "v", "i", "e", "w">>,
             <<"/", "e", "x", "p", "o", "r", "t", "?", "f", "o", "r", "m", "a", "t", "=", "x", "l", "s", "x">>}
Urls == {b \o m \o t : b \in UrlBases, m \in UrlMids, t \in UrlTails}

\* EXCEL_URL / EXCEL_SHEET_URL as configured
InitUrl ==
    /\ InitCache({})
    /\ url \in Urls
    /\ resolved = None
    /\ resolved_again = None
    /\ FilterIdle

\* fetch_excel resolves the configured URL
Resolve ==
    /\ resolved = None
    /\ resolved' = ToExportUrl(deploy, url)
    /\ UNCHANGED <<cacheVars, filterVars, url, resolved_again>>

\* the resolver applied to its own output
ResolveAgain ==
    /\ resolved # None
    /\ resolved_again = None
    /\ resolved_again' = ToExportUrl(deploy, resolved)
    /\ UNCHANGED <<cacheVars, filterVars, url, resolved>>

NextUrl == Resolve \/ ResolveAgain
SpecUrl == InitUrl /\ [][NextUrl]_vars

\* the identifier between the first "/d/" and the next "/", None without one
RECURSIVE UpToSlash(_)
UpToSlash(s) ==
    IF s = <<>> THEN None
    ELSE IF s[1] = "/" THEN <<>>
    ELSE LET r == UpToSlash(SubSeq(s, 2, Len(s)))
         IN  IF r = None /\ ~Contains(s, <<"/">>) THEN None ELSE <<s[1]>> \o r

\* what claim C7 says the resolver returns
ClaimedId(u) ==
    LET at == {i \in 1..Len(u) : i + 2 <= Len(u) /\ SubSeq(u, i, i + 2) = SlashD}
    IN  IF at = {} THEN None
        ELSE LET i == CHOOSE k \in at : \A h \in at : k <= h
                 rest == SubSeq(u, i + 3, Len(u))
             IN  IF ~Contains(rest, <<"/">>) THEN None
                 ELSE LET id == UpToSlash(rest)
                      IN  IF id # <<>> /\ \A k \in 1..Len(id) : id[k] \in IdChars
                          THEN id ELSE None

ClaimedExportUrl(u) ==
    IF Contains(u, ExportSuffix) THEN u
    ELSE IF Contains(u, SheetsHost) /\ ClaimedId(u) # None
         THEN ExportPrefix \o ClaimedId(u) \o ExportSuffix
         ELSE u

\* C7: a direct export URL is returned unchanged, a share URL with an
\* identifier between "/d/" and the next "/" becomes exactly
\* https://docs.google.com/spreadsheets/d/<id>/export?format=xlsx, any other
\* URL is returned unchanged, and resolving the result again changes nothing.
C7_ResolverContract ==
    /\ resolved # None => resolved = ClaimedExportUrl(url)
    /\ resolved_again # None => resolved_again = resolved

\* ------------------------------------------------------------------------
\* str.lower, digits
\* ------------------------------------------------------------------------
UpperLetters == <<"A", "B", "C", "D", "E", "F", "G", "H", "I", "J", "K", "L", "M", "N", "O", "P", "Q", "R", "S", "T", "U", "V", "W", "X", "Y", "Z">>
LowerLetters == <<"a", "b", "c", "d", "e", "f", "g", "h", "i", "j", "k", "l", "m", "n", "o", "p", "q", "r", "s", "t", "u", "v", "w", "x", "y", "z">>

\* c.lower() of one character
LowerOf == [u \in {UpperLetters[i] : i \in 1..26} |->
                LowerLetters[CHOOSE i \in 1..26 : UpperLetters[i] = u]]
LowerChar(c) == IF c \in DOMAIN LowerOf THEN LowerOf[c] ELSE c

\* s.lower()
Lower(s) == [i \in 1..Len(s) |-> LowerChar(s[i])]

Digits == <<"0", "1", "2", "3", "4", "5", "6", "7", "8", "9">>
IsDigit(c) == \E i \in 1..10 : Digits[i] = c
DigitVal(c) == (CHOOSE i \in 1..10 : Digits[i] = c) - 1

\* int(s) of a string of digits
RECURSIVE ParseInt(_)
ParseInt(s) ==
    IF s = <<>> THEN 0
    ELSE 10 * ParseInt(SubSeq(s, 1, Len(s) - 1)) + DigitVal(s[Len(s)])

AllDigits(s) == s # <<>> /\ \A i \in 1..Len(s) : IsDigit(s[i])

\* ------------------------------------------------------------------------
\* datetime.date: a date is its day number, 2024-01-01 being day 0
\* ------------------------------------------------------------------------
EpochYear == 2024

IsLeap(y) == (y % 4 = 0 /\ y % 100 # 0) \/ y % 400 = 0
YearLen(y) == IF IsLeap(y) THEN 366 ELSE 365
MonthLen(y, m) ==
    IF m = 2 THEN (IF IsLeap(y) THEN 29 ELSE 28)
    ELSE IF m \in {4, 6, 9, 11} THEN 30 ELSE 31

\* day number of January 1st of year y
RECURSIVE YearStart(_)
YearStart(y) ==
    IF y = EpochYear THEN 0
    ELSE IF y > EpochYear THEN YearStart(y - 1) + YearLen(y - 1)
    ELSE YearStart(y + 1) - YearLen(y)

\* day number of the first of month m of year y
RECURSIVE MonthStart(_, _)
MonthStart(y, m) == IF m = 1 THEN YearStart(y) ELSE MonthStart(y, m - 1) + MonthLen(y, m - 1)

\* date(y, m, d)
DateOf(y, m, d) == MonthStart(y, m) + d - 1

\* d.year, d.month, d.weekday() (Monday is 0; 2024-01-01 was a Monday)
RECURSIVE YearFrom(_, _)
YearFrom(d, y) ==
    IF d < YearStart(y) THEN YearFrom(d, y - 1)
    ELSE IF d >= YearStart(y + 1) THEN YearFrom(d, y + 1)
    ELSE y
YearOf(d) == YearFrom(d, EpochYear)
RECURSIVE MonthFrom(_, _, _)
MonthFrom(rest, y, m) ==
    IF rest < MonthLen(y, m) THEN m ELSE MonthFrom(rest - MonthLen(y, m), y, m + 1)
MonthOf(d) == LET y == YearOf(d) IN MonthFrom(d - YearStart(y), y, 1)
DayOf(d) == LET y == YearOf(d) IN d - MonthStart(y, MonthFrom(d - YearStart(y), y, 1)) + 1
Weekday(d) == d % 7

\* datetime.strptime(s, "%Y-%m-%d").date(): %Y takes four digits, %m and %d
\* one or two; anything else, or no such day, raises ValueError (None)
DashAt(s) == {i \in 1..Len(s) : s[i] = "-"}
StrpDate(s) ==
    IF Cardinality(DashAt(s)) # 2 THEN None
    ELSE LET i == CHOOSE k \in DashAt(s) : \A h \in DashAt(s) : k <= h
             j == CHOOSE k \in DashAt(s) : \A h \in DashAt(s) : k >= h
             ys == SubSeq(s, 1, i - 1)
             ms == SubSeq(s, i + 1, j - 1)
             ds == SubSeq(s, j + 1, Len(s))
         IN  IF ~(AllDigits(ys) /\ AllDigits(ms) /\ AllDigits(ds)) THEN None
             ELSE IF Len(ys) # 4 \/ Len(ms) > 2 \/ Len(ds) > 2 THEN None
             ELSE IF ParseInt(ys) < 1 \/ ParseInt(ms) \notin 1..12 THEN None
             ELSE IF ParseInt(ds) \notin 1..MonthLen(ParseInt(ys), ParseInt(ms)) THEN None
             ELSE At(DateOf(ParseInt(ys), ParseInt(ms), ParseInt(ds)))

\* ------------------------------------------------------------------------
\* Tables (DataFrames)
\* ------------------------------------------------------------------------
\* a table is [cols: the column names in order, rows: the rows in order];
\* a row is the tuple of its cells, one per column
\* cells: a string, an empty cell (NaN), a datetime (day number and seconds
\* since midnight), a missing datetime (NaT)
Text(s) == <<"str", s>>
NaN == <<"nan">>
Stamp(day, sec) == <<"dt", day, sec>>
NaT == <<"nat">>
IsStamp(c) == c[1] = "dt"

\* DATE_COLUMN_NAME = os.getenv("DATE_COLUMN", "Date")
DATE_COLUMN_NAME == <<"D", "a", "t", "e">>

\* name in df.columns
HasCol(df, name) == \E i \in 1..Len(df.cols) : df.cols[i] = name
\* position of the first column called name
ColIndex(df, name) ==
    CHOOSE i \in 1..Len(df.cols) :
        df.cols[i] = name /\ \A j \in 1..(i - 1) : df.cols[j] # name
\* df[name] as the tuple of its cells
Column(df, i) == [r \in 1..Len(df.rows) |-> df.rows[r][i]]

\* the rows the mask keeps, last row first
RECURSIVE KeepRowsReversed(_, _)
KeepRowsReversed(rows, mask) ==
    IF rows = <<>> THEN <<>>
    ELSE KeepRowsReversed(SubSeq(rows, 2, Len(rows)), SubSeq(mask, 2, Len(mask)))
         \o (IF mask[1] THEN <<rows[1]>> ELSE <<>>)

\* the rows of df the mask keeps, in order: df.loc[mask], df[mask]
RECURSIVE KeepRows(_, _)
KeepRows(rows, mask) ==
    IF rows = <<>> THEN <<>>
    ELSE (IF mask[1] THEN <<rows[1]>> ELSE <<>>)
         \o KeepRows(SubSeq(rows, 2, Len(rows)), SubSeq(mask, 2, Len(mask)))

\* pd.to_datetime(..., errors='coerce') of one cell: a datetime stays, a
\* string that reads as a date becomes that day at midnight, anything else
\* becomes NaT
ToDatetimeCell(c) ==
    IF IsStamp(c) THEN c
    ELSE IF c[1] = "str" /\ StrpDate(c[2]) # None THEN Stamp(TimeOf(StrpDate(c[2])), 0)
    ELSE NaT

\* df[col] = pd.to_datetime(df[col], errors='coerce')
CoerceColumn(df, i) ==
    [df EXCEPT !.rows = [r \in 1..Len(df.rows) |->
                            [df.rows[r] EXCEPT ![i] = ToDatetimeCell(df.rows[r][i])]]]

\* the dtype pandas gives a column with these cells
ColDtype(cells) ==
    IF cells = <<>> THEN "object"
    ELSE IF \A k \in 1..Len(cells) : cells[k] = NaN THEN "float64"
    ELSE IF \A k \in 1..Len(cells) : IsStamp(cells[k]) \/ cells[k] \in {NaT, NaN}
         THEN "datetime64"
         ELSE "object"

\* pd.read_excel: in a column of datetimes an empty cell is read as NaT
ReadExcel(sheet) ==
    [sheet EXCEPT !.rows =
        [r \in 1..Len(sheet.rows) |->
            [i \in 1..Len(sheet.cols) |->
                IF ColDtype(Column(sheet, i)) = "datetime64" /\ sheet.rows[r][i] = NaN
                THEN NaT ELSE sheet.rows[r][i]]]]

\* app.py 116-122 (netlify 107-113): fetch_excel coerces the date column;
\* api/index.py 81-85 keeps the sheet as read
Fetched(d, sheet) ==
    IF d # "index" /\ HasCol(sheet, DATE_COLUMN_NAME)
    THEN CoerceColumn(sheet, ColIndex(sheet, DATE_COLUMN_NAME))
    ELSE sheet

\* the mask without .dt.date: the datetime itself against midnight of end
DateMaskNoTruncation(df, i, start, end) ==
    [r \in 1..Len(df.rows) |->
        /\ IsStamp(df.rows[r][i])
        /\ df.rows[r][i][2] >= start
        /\ (df.rows[r][i][2] < end \/ (df.rows[r][i][2] = end /\ df.rows[r][i][3] = 0))]

\* (df[col].dt.date >= start) & (df[col].dt.date <= end): .dt.date drops the
\* time of day, a missing date compares False
DateMask(df, i, start, end) ==
    [r \in 1..Len(df.rows) |->
        /\ IsStamp(df.rows[r][i])
        /\ df.rows[r][i][2] >= start
        /\ df.rows[r][i][2] <= end]

\* app.py 139-158 (netlify 130-149): filter_df; start and end are None or At(day)
FilterDfApp(df, start, end) ==
    IF ~HasCol(df, DATE_COLUMN_NAME) \/ start = None \/ end = None THEN df
    ELSE LET i == ColIndex(df, DATE_COLUMN_NAME)
             co == IF ColDtype(Column(df, i)) = "object" THEN CoerceColumn(df, i) ELSE df
         IN  IF ColDtype(Column(df, i)) = "float64"
             THEN df   \* .dt raises AttributeError, the except clause returns df
             ELSE [co EXCEPT !.rows = KeepRows(co.rows, DateMask(co, i, TimeOf(start), TimeOf(end)))]

\* next((c for c in df.columns if 'date' in c.lower()), None)
DateColsIndex(df) == {i \in 1..Len(df.cols) : Contains(Lower(df.cols[i]), <<"d", "a", "t", "e">>)}

\* api/index.py 91-103: filter_df
FilterDfIndex(df, start, end) ==
    IF start = None \/ end = None THEN df
    ELSE IF DateColsIndex(df) = {} THEN df
    ELSE LET i == CHOOSE k \in DateColsIndex(df) : \A h \in DateColsIndex(df) : k <= h
             co == CoerceColumn(df, i)
         IN  [co EXCEPT !.rows = KeepRows(co.rows, DateMask(co, i, TimeOf(start), TimeOf(end)))]

\* filter_df of the running entry point
FilterDf(d, df, start, end) ==
    IF d = "index" THEN FilterDfIndex(df, start, end) ELSE FilterDfApp(df, start, end)

\* the table passed to filter_df as the call leaves it: the assignment
\* df[col] = pd.to_datetime(...) writes into the caller's table
\* app.py 146-147 (netlify 137-138)
FilterDfAppArg(df, start, end) ==
    IF ~HasCol(df, DATE_COLUMN_NAME) \/ start = None \/ end = None THEN df
    ELSE IF ColDtype(Column(df, ColIndex(df, DATE_COLUMN_NAME))) = "object"
         THEN CoerceColumn(df, ColIndex(df, DATE_COLUMN_NAME))
         ELSE df
\* api/index.py 98-101
FilterDfIndexArg(df, start, end) ==
    IF start = None \/ end = None THEN df
    ELSE IF DateColsIndex(df) = {} THEN df
    ELSE CoerceColumn(df, CHOOSE k \in DateColsIndex(df) : \A h \in DateColsIndex(df) : k <= h)
FilterDfArg(d, df, start, end) ==
    IF d = "index" THEN FilterDfIndexArg(df, start, end) ELSE FilterDfAppArg(df, start, end)

\* ------------------------------------------------------------------------
\* get_range
\* ------------------------------------------------------------------------
NoRange == <<None, None>>
Range(a, b) == <<At(a), At(b)>>

\* app.py 161-194 (netlify 152-185)
GetRangeApp(ft, t) ==
    IF ft = <<"t", "o", "d", "a", "y">> THEN Range(t, t)
    ELSE IF ft = <<"y", "e", "s", "t", "e", "r", "d", "a", "y">> THEN Range(t - 1, t - 1)
    ELSE IF ft = <<"t", "o", "m", "o", "r", "r", "o", "w">> THEN Range(t + 1, t + 1)
    ELSE IF ft = <<"l", "a", "s", "t", "7">> THEN Range(t - 6, t)
    ELSE IF ft = <<"l", "a", "s", "t", "3", "0">> THEN Range(t - 29, t)
    ELSE IF ft = <<"n", "e", "x", "t", "7">> THEN Range(t, t + 7)
    ELSE IF ft = <<"n", "e", "x", "t", "3", "0">> THEN Range(t, t + 30)
    ELSE IF ft = <<"t", "h", "i", "s", "w", "e", "e", "k">> THEN Range(t - Weekday(t), t - Weekday(t) + 6)
    ELSE IF ft = <<"t", "h", "i", "s", "m", "o", "n", "t", "h">>
         THEN Range(MonthStart(YearOf(t), MonthOf(t)),
                    MonthStart(YearOf(t), MonthOf(t)) + MonthLen(YearOf(t), MonthOf(t)) - 1)
    ELSE IF ft = <<"t", "h", "i", "s", "y", "e", "a", "r">> THEN Range(DateOf(YearOf(t), 1, 1), DateOf(YearOf(t), 12, 31))
    ELSE NoRange

\* api/index.py 105-116
GetRangeIndex(ft, t) ==
    IF ft = <<"t", "o", "d", "a", "y">> THEN Range(t, t)
    ELSE IF ft = <<"y", "e", "s", "t", "e", "r", "d", "a", "y">> THEN Range(t - 1, t - 1)
    ELSE IF ft = <<"l", "a", "s", "t", "_", "7", "_", "d", "a", "y", "s">> THEN Range(t - 6, t)
    ELSE IF ft = <<"l", "a", "s", "t", "_", "3", "0", "_", "d", "a", "y", "s">> THEN Range(t - 29, t)
    ELSE IF ft = <<"t", "h", "i", "s", "_", "m", "o", "n", "t", "h">> THEN Range(DateOf(YearOf(t), MonthOf(t), 1), t)
    ELSE IF ft = <<"t", "h", "i", "s", "_", "y", "e", "a", "r">> THEN Range(DateOf(YearOf(t), 1, 1), DateOf(YearOf(t), 12, 31))
    ELSE NoRange

\* get_range of the running entry point
GetRange(d, ft, t) == IF d = "index" THEN GetRangeIndex(ft, t) ELSE GetRangeApp(ft, t)

\* ------------------------------------------------------------------------
\* astype(str)
\* ------------------------------------------------------------------------
\* str(n) of 0 <= n, left-padded with zeros to w digits
RECURSIVE PadInt(_, _)
PadInt(n, w) ==
    IF w = 0 THEN <<>> ELSE PadInt(n \div 10, w - 1) \o <<Digits[(n % 10) + 1]>>

\* d.strftime("%Y-%m-%d")
DateStr(d) ==
    PadInt(YearOf(d), 4) \o <<"-">> \o PadInt(MonthOf(d), 2) \o <<"-">> \o PadInt(DayOf(d), 2)
\* "%H:%M:%S" of the seconds since midnight
TimeStr(sec) ==
    PadInt(sec \div 3600, 2) \o <<":">> \o PadInt((sec % 3600) \div 60, 2)
                            \o <<":">> \o PadInt(sec % 60, 2)

\* str(cell), as astype(str) gives it: "nan" for an empty cell, "NaT" for a
\* missing datetime, "YYYY-MM-DD HH:MM:SS" for a datetime
CellStr(c) ==
    IF c[1] = "str" THEN c[2]
    ELSE IF c[1] = "time" THEN TimeStr(c[2])
    ELSE IF c = NaN THEN <<"n", "a", "n">>
    ELSE IF c = NaT THEN <<"N", "a", "T">>
    ELSE DateStr(c[2]) \o <<" ">> \o TimeStr(c[3])

\* out[out[col].astype(str).str.lower() == query.lower()]
\* df[col].astype(str): a datetime64 column is formatted as a whole, without
\* the time of day when every datetime of it is at midnight; the cells of any
\* other column are stringified one by one
ColumnStr(df, i) ==
    LET cells == Column(df, i)
        datesOnly == \A k \in 1..Len(cells) : IsStamp(cells[k]) => cells[k][3] = 0
    IN  [r \in 1..Len(cells) |->
            IF ColDtype(cells) = "datetime64" /\ IsStamp(cells[r]) /\ datesOnly
            THEN DateStr(cells[r][2])
            ELSE CellStr(cells[r])]
EqualsMask(df, i, q) ==
    [r \in 1..Len(df.rows) |-> Lower(ColumnStr(df, i)[r]) = Lower(q)]
KeepEqual(df, i, q) == [df EXCEPT !.rows = KeepRows(df.rows, EqualsMask(df, i, q))]

\* ------------------------------------------------------------------------
\* The field filter
\* ------------------------------------------------------------------------
Min(S) == CHOOSE k \in S : \A h \in S : k <= h
Max(S) == CHOOSE k \in S : \A h \in S : k >= h

\* app.py 311-324: api_filter looks for the column whose lower-cased name
\* equals the lower-cased field
FieldFilterExact(df, field, q) ==
    IF field = <<>> \/ q = <<>> THEN df
    ELSE LET hits == {i \in 1..Len(df.cols) : Lower(df.cols[i]) = Lower(field)}
         IN  IF hits = {} THEN df ELSE KeepEqual(df, Min(hits), q)

\* known_map of api_counts / api_unique_values: its keys
KnownAliases == {<<"b", "d">>, <<"c", "i", "t", "y">>, <<"h", "o", "s", "p", "i", "t", "a", "l">>, <<"s", "t", "a", "t", "e">>}

\* df_columns_lower = {c.lower(): c for c in out.columns}: the keys in
\* insertion order are the positions where a lower-cased name first occurs,
\* the value of a key is the last column with that lower-cased name
DictKeyAt(df) ==
    {i \in 1..Len(df.cols) : \A j \in 1..(i - 1) : Lower(df.cols[j]) # Lower(df.cols[i])}
DictValue(df, key) == Max({i \in 1..Len(df.cols) : Lower(df.cols[i]) = key})

\* app.py 436-459 (netlify 301-324, 411-434): the column the field names,
\* as a position, 0 when none
TargetColumn(df, field) ==
    IF Lower(field) \in KnownAliases
    THEN LET hits == {i \in DictKeyAt(df) : Contains(Lower(df.cols[i]), Lower(field))}
         IN  IF hits = {} THEN 0 ELSE DictValue(df, Lower(df.cols[Min(hits)]))
    ELSE IF \E i \in 1..Len(df.cols) : Lower(df.cols[i]) = Lower(field)
         THEN DictValue(df, Lower(field))
         ELSE 0

\* app.py 436-466: the field filter of api_counts (netlify: of api_filter too)
FieldFilterAlias(df, field, q) ==
    IF field = <<>> \/ q = <<>> THEN df
    ELSE IF TargetColumn(df, field) = 0 THEN df
    ELSE IF Lower(field) = <<"b", "d">> /\ Lower(q) = <<"a", "l", "l", "_", "b", "d">> THEN df
    ELSE KeepEqual(df, TargetColumn(df, field), q)

\* api/index.py 218-222
FieldFilterIndex(df, field, q) ==
    IF field = <<>> \/ q = <<>> \/ Lower(q) = <<"a", "l", "l", "_", "b", "d">> THEN df
    ELSE LET hits == {i \in 1..Len(df.cols) : Contains(Lower(df.cols[i]), Lower(field))}
         IN  IF hits = {} THEN df ELSE KeepEqual(df, Min(hits), q)

\* ------------------------------------------------------------------------
\* The date range of a request
\* ------------------------------------------------------------------------
BadDate == <<"bad date">>

\* a start given without an end taken as the one-day range of that start
DateRangeAppLoneStart(r, t) ==
    IF r.start # <<>> /\ r.end = <<>> /\ StrpDate(r.start) # None
    THEN <<StrpDate(r.start), StrpDate(r.start)>>
    ELSE IF r.start # <<>> /\ r.end # <<>>
    THEN IF StrpDate(r.start) = None \/ StrpDate(r.end) = None
         THEN BadDate
         ELSE <<StrpDate(r.start), StrpDate(r.end)>>
    ELSE IF Lower(r.type) # <<>> THEN GetRangeApp(Lower(r.type), t)
    ELSE NoRange

\* app.py 296-306, 421-431 (netlify 282-294, 396-406): start and end win
\* over type; a string strptime rejects gives BadDate
DateRangeApp(r, t) ==
    IF r.start # <<>> /\ r.end # <<>>
    THEN IF StrpDate(r.start) = None \/ StrpDate(r.end) = None
         THEN BadDate
         ELSE <<StrpDate(r.start), StrpDate(r.end)>>
    ELSE IF Lower(r.type) # <<>> THEN GetRangeApp(Lower(r.type), t)
    ELSE NoRange

\* api/index.py 207-213: start and end count only with type=custom
DateRangeIndex(r, t) ==
    IF r.type = <<"c", "u", "s", "t", "o", "m">> /\ r.start # <<>> /\ r.end # <<>>
    THEN IF StrpDate(r.start) = None \/ StrpDate(r.end) = None
         THEN BadDate
         ELSE <<StrpDate(r.start), StrpDate(r.end)>>
    ELSE IF r.type # <<>> /\ r.type # <<"a", "l", "l">> THEN GetRangeIndex(r.type, t)
    ELSE NoRange

\* a missing range taken as the empty range
ApplyRangeUnguarded(d, df, rg) ==
    IF rg[1] # None /\ rg[2] # None THEN FilterDf(d, df, rg[1], rg[2])
    ELSE [df EXCEPT !.rows = <<>>]
\* if start_date and end_date: out = filter_df(out, start_date, end_date)
ApplyRange(d, df, rg) ==
    IF rg[1] # None /\ rg[2] # None THEN FilterDf(d, df, rg[1], rg[2]) ELSE df

\* out = df.copy() as the handler leaves it before the field filter, which
\* builds a new table: filter_df is called only with a whole range
ApplyRangeArg(d, df, rg) ==
    IF rg = BadDate THEN df
    ELSE IF rg[1] # None /\ rg[2] # None THEN FilterDfArg(d, df, rg[1], rg[2]) ELSE df

\* ------------------------------------------------------------------------
\* The handlers: the answer is [status, frame], frame being the filtered
\* table the counts and the data of the body are computed from
\* ------------------------------------------------------------------------
Answer(st, df) == [status |-> st, frame |-> <<df>>]
Failed(st) == [status |-> st, frame |-> <<>>]

\* app.py 282-337
ApiFilterApp(df, r, t) ==
    IF r.fetch # "ok" THEN Failed(500)
    ELSE IF DateRangeApp(r, t) = BadDate THEN Failed(400)
    ELSE Answer(200, FieldFilterExact(ApplyRange("app", df, DateRangeApp(r, t)), r.field, r.q))

\* netlify/functions/api.py 268-353
ApiFilterNetlify(df, r, t) ==
    IF r.fetch # "ok" THEN Failed(500)
    ELSE IF DateRangeApp(r, t) = BadDate THEN Failed(400)
    ELSE Answer(200, FieldFilterAlias(ApplyRange("netlify", df, DateRangeApp(r, t)), r.field, r.q))

\* api/index.py 188-236: calculate_counts reads df.columns[0], which raises
\* on a table without columns, and a bad date raises inside the try: 500
ApiFilterIndex(df, r, t) ==
    IF r.fetch # "ok" THEN Failed(500)
    ELSE IF Len(df.cols) = 0 THEN Failed(500)
    ELSE IF DateRangeIndex(r, t) = BadDate THEN Failed(500)
    ELSE Answer(200, FieldFilterIndex(ApplyRange("index", df, DateRangeIndex(r, t)), r.field, r.q))

\* app.py 407-477, netlify/functions/api.py 382-452
ApiCountsApp(d, df, r, t) ==
    IF r.fetch # "ok" THEN Failed(500)
    ELSE IF DateRangeApp(r, t) = BadDate THEN Failed(400)
    ELSE Answer(200, FieldFilterAlias(ApplyRange(d, df, DateRangeApp(r, t)), r.field, r.q))

\* api/index.py 258-265: no parameter is read
ApiCountsIndex(df, r, t) ==
    IF r.fetch # "ok" THEN Failed(500)
    ELSE IF Len(df.cols) = 0 THEN Failed(500)
    ELSE Answer(200, df)

ApiFilter(d, df, r, t) ==
    IF d = "app" THEN ApiFilterApp(df, r, t)
    ELSE IF d = "netlify" THEN ApiFilterNetlify(df, r, t)
    ELSE ApiFilterIndex(df, r, t)

ApiCounts(d, df, r, t) ==
    IF d = "index" THEN ApiCountsIndex(df, r, t) ELSE ApiCountsApp(d, df, r, t)

\* ------------------------------------------------------------------------
\* calculate_counts
\* ------------------------------------------------------------------------
\* s.strip()
RECURSIVE LStrip(_)
LStrip(s) == IF s # <<>> /\ s[1] = " " THEN LStrip(SubSeq(s, 2, Len(s))) ELSE s
RECURSIVE RStrip(_)
RStrip(s) == IF s # <<>> /\ s[Len(s)] = " " THEN RStrip(SubSeq(s, 1, Len(s) - 1)) ELSE s
Strip(s) == RStrip(LStrip(s))

\* df[col].astype(str).str.strip().str.lower()
CleanedColumn(df, i) == [r \in 1..Len(df.rows) |-> Lower(Strip(ColumnStr(df, i)[r]))]
\* int((cleaned == label).sum())
CountEqual(cells, label) == Cardinality({r \in 1..Len(cells) : cells[r] = label})
\* the count of label in the column called name, 0 when there is no such column
CountIn(df, name, label) ==
    IF HasCol(df, name) THEN CountEqual(CleanedColumn(df, ColIndex(df, name)), label) ELSE 0

OPD_IPD == <<"O", "P", "D", "&", "I", "P", "D">>
IPD_STATUS == <<"I", "P", "D", " ", "S", "t", "a", "t", "u", "s">>
SPACE_STATUS == <<" ", "S", "t", "a", "t", "u", "s">>

\* app.py 217-234, api/index.py 137-153: ipd_count, with the 'IPD Status'
\* column as a fallback when 'OPD&IPD' gave 0
IpdCount(df) ==
    IF HasCol(df, IPD_STATUS) /\ CountIn(df, OPD_IPD, <<"i", "p", "d", " ", "c", "o", "m", "p", "l", "e", "t", "e", "d">>) = 0
    THEN CountIn(df, IPD_STATUS, <<"c", "o", "m", "p", "l", "e", "t", "e", "d">>)
    ELSE CountIn(df, OPD_IPD, <<"i", "p", "d", " ", "c", "o", "m", "p", "l", "e", "t", "e", "d">>)

\* total_records taken as the number of completed rows
CalculateCountsAppTotalOfCompleted(df) ==
    [opd_count |-> CountIn(df, OPD_IPD, <<"o", "p", "d", " ", "c", "o", "m", "p", "l", "e", "t", "e", "d">>),
     ipd_count |-> IpdCount(df),
     surgery_suggested |-> CountIn(df, SPACE_STATUS, <<"s", "u", "r", "g", "e", "r", "y", " ", "s", "u", "g", "g", "e", "s", "t", "e", "d">>),
     diagnostic_suggested |-> CountIn(df, SPACE_STATUS, <<"d", "i", "a", "g", "n", "o", "s", "t", "i", "c", " ", "s", "u", "g", "g", "e", "s", "t", "e", "d">>),
     surgery_not_suggested |-> CountIn(df, SPACE_STATUS, <<"s", "u", "r", "g", "e", "r", "y", " ", "n", "o", "t", " ", "s", "u", "g", "g", "e", "s", "t", "e", "d">>),
     total_records |-> CountIn(df, OPD_IPD, <<"o", "p", "d", " ", "c", "o", "m", "p", "l", "e", "t", "e", "d">>) + IpdCount(df)]
\* app.py 200-257
CalculateCountsApp(df) ==
    [opd_count |-> CountIn(df, OPD_IPD, <<"o", "p", "d", " ", "c", "o", "m", "p", "l", "e", "t", "e", "d">>),
     ipd_count |-> IpdCount(df),
     surgery_suggested |-> CountIn(df, SPACE_STATUS, <<"s", "u", "r", "g", "e", "r", "y", " ", "s", "u", "g", "g", "e", "s", "t", "e", "d">>),
     diagnostic_suggested |-> CountIn(df, SPACE_STATUS, <<"d", "i", "a", "g", "n", "o", "s", "t", "i", "c", " ", "s", "u", "g", "g", "e", "s", "t", "e", "d">>),
     surgery_not_suggested |-> CountIn(df, SPACE_STATUS, <<"s", "u", "r", "g", "e", "r", "y", " ", "n", "o", "t", " ", "s", "u", "g", "g", "e", "s", "t", "e", "d">>),
     total_records |-> Len(df.rows)]

\* api/index.py 122-173: the first column is the status column; df.columns[0]
\* raises IndexError on a table without columns
CalculateCountsIndexRaises(df) == Len(df.cols) = 0
CalculateCountsIndex(df) ==
    [opd_count |-> CountIn(df, OPD_IPD, <<"o", "p", "d", " ", "c", "o", "m", "p", "l", "e", "t", "e", "d">>),
     ipd_count |-> IpdCount(df),
     surgery_suggested |-> CountEqual(CleanedColumn(df, 1), <<"s", "u", "r", "g", "e", "r", "y", " ", "s", "u", "g", "g", "e", "s", "t", "e", "d">>),
     diagnostic_suggested |-> CountEqual(CleanedColumn(df, 1), <<"d", "i", "a", "g", "n", "o", "s", "t", "i", "c", " ", "s", "u", "g", "g", "e", "s", "t", "e", "d">>),
     total_records |-> Len(df.rows)]

\* netlify/functions/api.py 198-208: the status column is the first column
\* whose trimmed lower-cased name is 'opd&ipd', else the first whose name
\* contains 'status'; 0 when there is none
StatusColNetlify(df) ==
    LET named == {i \in 1..Len(df.cols) : Lower(Strip(df.cols[i])) = <<"o", "p", "d", "&", "i", "p", "d">>}
        status == {i \in 1..Len(df.cols) : Contains(Lower(Strip(df.cols[i])), <<"s", "t", "a", "t", "u", "s">>)}
    IN  IF named # {} THEN Min(named) ELSE IF status # {} THEN Min(status) ELSE 0

\* netlify/functions/api.py 191-229
CalculateCountsNetlify(df) ==
    LET sc == StatusColNetlify(df)
    IN  [opd_count |-> IF sc = 0 THEN 0 ELSE CountEqual(CleanedColumn(df, sc), <<"o", "p", "d", " ", "c", "o", "m", "p", "l", "e", "t", "e", "d">>),
         ipd_count |-> IF sc = 0 THEN 0 ELSE CountEqual(CleanedColumn(df, sc), <<"i", "p", "d", " ", "c", "o", "m", "p", "l", "e", "t", "e", "d">>),
         total_records |-> Len(df.rows),
         debug_info |-> sc]

\* calculate_counts of the running entry point, and whether it raises
CalculateCountsRaises(d, df) == d = "index" /\ CalculateCountsIndexRaises(df)
CalculateCounts(d, df) ==
    IF d = "app" THEN CalculateCountsApp(df)
    ELSE IF d = "netlify" THEN CalculateCountsNetlify(df)
    ELSE CalculateCountsIndex(df)

\* ------------------------------------------------------------------------
\* _df_to_records: a row object is the tuple of its values in column order
\* ------------------------------------------------------------------------
\* a cell holding a datetime.time, seconds since midnight
Time(sec) == <<"time", sec>>
IsTime(c) == c[1] = "time"
\* None in a row object
Null == <<"null">>
IsNull(c) == c[1] = "nan" \/ c[1] = "nat"

\* app.py 60-75 (netlify 54-69): datetime64 columns through strftime, the time
\* cells of object columns through strftime, then nulls replaced by None
RecordCellApp(df, r, i) ==
    LET c == df.rows[r][i]
    IN  IF ColDtype(Column(df, i)) = "datetime64"
        THEN IF IsStamp(c) THEN Text(DateStr(c[2])) ELSE Null
        ELSE IF IsTime(c) THEN Text(TimeStr(c[2]))
        ELSE IF IsNull(c) THEN Null
        ELSE c
DfToRecordsApp(df) ==
    [r \in 1..Len(df.rows) |-> [i \in 1..Len(df.cols) |-> RecordCellApp(df, r, i)]]

\* api/index.py 47-54: [] for an empty table; datetime64 columns through
\* strftime; replace({pd.NaT: None, pd.NA: None}) turns the nulls of object
\* columns into None, those of a float column into None or leaves them NaN
\* (floatNull tells which)
RecordCellIndex(df, r, i, floatNull) ==
    LET c == df.rows[r][i]
    IN  IF ColDtype(Column(df, i)) = "datetime64"
        THEN IF IsStamp(c) THEN Text(DateStr(c[2])) ELSE Null
        ELSE IF ColDtype(Column(df, i)) = "float64"
        THEN IF floatNull THEN Null ELSE NaN
        ELSE IF IsNull(c) THEN Null
        ELSE c
DfToRecordsIndex(df, floatNull) ==
    IF Len(df.rows) = 0 \/ Len(df.cols) = 0 THEN <<>>
    ELSE [r \in 1..Len(df.rows) |->
            [i \in 1..Len(df.cols) |-> RecordCellIndex(df, r, i, floatNull)]]

\* the outcomes of that replace: only api/index.py has it
FloatNulls(d) == IF d = "index" THEN BOOLEAN ELSE {FALSE}

DfToRecords(d, df, floatNull) ==
    IF d = "index" THEN DfToRecordsIndex(df, floatNull) ELSE DfToRecordsApp(df)

\* ------------------------------------------------------------------------
\* The bodies of the answers: the keys of the JSON object, the counts and
\* the data of it
\* ------------------------------------------------------------------------
NoCounts == <<>>
ErrorBody(keys) == [keys |-> keys, counts |-> NoCounts, data |-> <<>>]
NoBody == ErrorBody({})

\* app.py 263-279, api/index.py 179-186
ApiDataBody(d, df, fetch, floatNull) ==
    IF fetch # "ok" \/ CalculateCountsRaises(d, df) THEN ErrorBody({"error", "success"})
    ELSE [keys |-> {"data", "counts", "success"},
          counts |-> CalculateCounts(d, df),
          data |-> DfToRecords(d, df, floatNull)]

\* app.py 326-337, netlify/functions/api.py 329-353, api/index.py 227-236
FilterBodyKeys(d) ==
    IF d = "app" THEN {"success", "counts", "data"}
    ELSE IF d = "netlify" THEN {"data", "counts", "filter_info", "success"}
    ELSE {"success", "total_counts", "counts", "data"}
ApiFilterBody(d, a, floatNull) ==
    IF a.status # 200 THEN ErrorBody({"error", "success"})
    ELSE [keys |-> FilterBodyKeys(d),
          counts |-> CalculateCounts(d, a.frame[1]),
          data |-> DfToRecords(d, a.frame[1], floatNull)]

\* the keys of the summary calculate_counts returns
CountKeys(d) ==
    IF d = "app" THEN {"opd_count", "ipd_count", "surgery_suggested", "diagnostic_suggested",
                       "surgery_not_suggested", "total_records"}
    ELSE IF d = "netlify" THEN {"opd_count", "ipd_count", "total_records", "debug_info"}
    ELSE {"opd_count", "ipd_count", "surgery_suggested", "diagnostic_suggested", "total_records"}

\* app.py 421-477 (netlify 396-452): counts["success"] = True, the 400 body
\* has the error only; api/index.py 258-265: the summary as it is
ApiCountsBody(d, a) ==
    IF a.status = 400 THEN ErrorBody({"error"})
    ELSE IF a.status # 200 THEN ErrorBody({"error", "success"})
    ELSE [keys |-> IF d = "index" THEN CountKeys(d) ELSE CountKeys(d) \cup {"success"},
          counts |-> CalculateCounts(d, a.frame[1]),
          data |-> <<>>]

\* ------------------------------------------------------------------------
\* The sheets and the requests tried
\* ------------------------------------------------------------------------
\* rows of a sheet
MaxRows == 2

FilterDeploys == {"app", "netlify", "index"}

Day15 == DateOf(2024, 1, 15)
Day31 == DateOf(2024, 1, 31)
Noon == 43200

\* header rows
Layouts == {<<<<"D", "a", "t", "e">>, <<"B", "D">>, <<"C", "i", "t", "y">>>>,
            <<<<"D", "a", "t", "e">>, <<"B", "D", " ", "N", "a", "m", "e">>, <<"C", "i", "t", "y">>>>,
            <<<<"V", "i", "s", "i", "t", " ", "D", "a", "t", "e">>, <<"B", "D">>, <<"C", "i", "t", "y">>>>,
            <<<<"B", "D">>, <<"b", "d">>, <<"C", "i", "t", "y">>>>}

\* what a cell under a header can hold
CellsFor(name) ==
    IF Contains(Lower(name), <<"d", "a", "t", "e">>)
    THEN {Stamp(Day15, 0), Stamp(Day31, Noon), Text(<<"n", "/", "a">>), NaN}
    ELSE IF Contains(Lower(name), <<"b", "d">>)
    THEN {Text(<<"A", "l", "i", "c", "e">>), NaN}
    ELSE {Text(<<"P", "u", "n", "e">>)}

RowsOf(cols) ==
    {<<a, b, c>> : a \in CellsFor(cols[1]), b \in CellsFor(cols[2]), c \in CellsFor(cols[3])}

RECURSIVE SeqsUpTo(_, _)
SeqsUpTo(S, n) ==
    IF n = 0 THEN {<<>>}
    ELSE SeqsUpTo(S, n - 1) \cup {Append(s, x) : s \in {q \in SeqsUpTo(S, n - 1) : Len(q) = n - 1}, x \in S}

Sheets == UNION {{[cols |-> c, rows |-> rs] : rs \in SeqsUpTo(RowsOf(c), MaxRows)} : c \in Layouts}

NoReq == [endpoint |-> "none", type |-> <<>>, start |-> <<>>, end |-> <<>>,
          field |-> <<>>, q |-> <<>>, fetch |-> "ok"]
NoAnswer == [status |-> 0, frame |-> <<>>]

\* query strings: requests with date parameters, with a field filter, with both,
\* and requests whose fetch fails
DateRequests ==
    {[NoReq EXCEPT !.type = ty] :
        ty \in {<<>>, <<"t", "h", "i", "s", "m", "o", "n", "t", "h">>, <<"T", "o", "d", "a", "y">>, <<"t", "h", "i", "s", "_", "m", "o", "n", "t", "h">>, <<"c", "u", "s", "t", "o", "m">>, <<"n", "o", "s", "u", "c", "h">>}}
    \cup
    {[NoReq EXCEPT !.type = ty, !.start = s, !.end = e] :
        ty \in {<<>>, <<"t", "h", "i", "s", "_", "m", "o", "n", "t", "h">>, <<"c", "u", "s", "t", "o", "m">>},
        s \in {<<>>, <<"2", "0", "2", "4", "-", "0", "1", "-", "1", "6">>, <<"1", "6", "/", "0", "1", "/", "2", "0", "2", "4">>},
        e \in {<<>>, <<"2", "0", "2", "4", "-", "0", "1", "-", "3", "1">>, <<"2", "0", "2", "4", "-", "0", "2", "-", "3", "0">>}}
FieldRequests ==
    {[NoReq EXCEPT !.field = f, !.q = q] :
        f \in {<<"b", "d">>, <<"B", "D">>, <<"b", "d", " ", "n", "a", "m", "e">>, <<"c", "i", "t", "y">>, <<"z", "o", "n", "e">>},
        q \in {<<"a", "l", "i", "c", "e">>, <<"A", "L", "L", "_", "B", "D">>, <<"n", "a", "n">>}}
BothRequests ==
    {[NoReq EXCEPT !.start = <<"2", "0", "2", "4", "-", "0", "1", "-", "1", "5">>, !.end = <<"2", "0", "2", "4", "-", "0", "1", "-", "3", "1">>, !.field = f, !.q = q] :
        f \in {<<"b", "d">>, <<"C", "i", "t", "y">>}, q \in {<<"a", "l", "i", "c", "e">>, <<"a", "l", "l", "_", "b", "d">>, <<"P", "U", "N", "E">>}}
FailedFetchRequests ==
    {[r EXCEPT !.fetch = "failed"] :
        r \in {NoReq, [NoReq EXCEPT !.start = <<"1", "6", "/", "0", "1", "/", "2", "0", "2", "4">>, !.end = <<"2", "0", "2", "4", "-", "0", "1", "-", "3", "1">>]}}
\* a field filter on the date column itself, together with a date range
DateFieldRequests ==
    {[NoReq EXCEPT !.type = ty, !.start = <<"2", "0", "2", "4", "-", "0", "1", "-", "1", "5">>, !.end = <<"2", "0", "2", "4", "-", "0", "1", "-", "1", "6">>,
                   !.field = <<"D", "a", "t", "e">>, !.q = q] :
        ty \in {<<>>, <<"c", "u", "s", "t", "o", "m">>},
        q \in {<<"2", "0", "2", "4", "-", "0", "1", "-", "1", "5">>, <<"2", "0", "2", "4", "-", "0", "1", "-", "1", "5", " ", "0", "0", ":", "0", "0", ":", "0", "0">>, <<"N", "a", "T">>}}
Requests == DateRequests \cup FieldRequests \cup BothRequests \cup DateFieldRequests
                \cup FailedFetchRequests

\* arguments of a direct call of filter_df
RangeEnds == {None, At(Day15), At(Day15 + 1), At(Day31)}

\* the table fetch_excel hands to the handlers, the day it is
InitFilterOn(sheets) ==
    /\ deploy \in FilterDeploys
    /\ sheet_url_set = TRUE
    /\ workers = {}
    /\ now = 0 /\ ticks = 0 /\ df_cache = None /\ last_fetched = None
    /\ http_count = 0 /\ stamp_of = None
    /\ pc = [t \in Threads |-> "idle"]
    /\ loc_now = [t \in Threads |-> None]
    /\ seen = [t \in Threads |-> None]
    /\ resp = [t \in Threads |-> NoResp]
    /\ loc_df = [t \in Threads |-> None]
    /\ ret = [t \in Threads |-> None]
    /\ UrlIdle
    /\ \E sh \in sheets : tbl = Fetched(deploy, ReadExcel(sh))
    /\ today = Day31
    /\ req = NoReq
    /\ out = NoAnswer
    /\ arg = tbl
    /\ body = NoBody
InitFilter == InitFilterOn(Sheets)

\* GET /api/filter
HandleFilter(r) ==
    /\ req.endpoint = "none"
    /\ req' = [r EXCEPT !.endpoint = "filter"]
    /\ LET a == ApiFilter(deploy, tbl, r, today)
       IN  /\ out' = a
           /\ \E floatNull \in FloatNulls(deploy) : body' = ApiFilterBody(deploy, a, floatNull)
    /\ arg' = IF r.fetch # "ok" THEN tbl
              ELSE IF deploy = "index" THEN ApplyRangeArg(deploy, tbl, DateRangeIndex(r, today))
              ELSE ApplyRangeArg(deploy, tbl, DateRangeApp(r, today))
    /\ UNCHANGED <<cacheVars, urlVars, tbl, today>>

\* GET /api/counts
HandleCounts(r) ==
    /\ req.endpoint = "none"
    /\ req' = [r EXCEPT !.endpoint = "counts"]
    /\ LET a == ApiCounts(deploy, tbl, r, today)
       IN  /\ out' = a
           /\ body' = ApiCountsBody(deploy, a)
    /\ arg' = IF r.fetch # "ok" \/ deploy = "index" THEN tbl
              ELSE ApplyRangeArg(deploy, tbl, DateRangeApp(r, today))
    /\ UNCHANGED <<cacheVars, urlVars, tbl, today>>

\* filter_df(df, start, end) called on the fetched table
CallFilterDf(s, e) ==
    /\ req.endpoint = "none"
    /\ req' = [NoReq EXCEPT !.endpoint = "filter_df", !.start = s, !.end = e]
    /\ out' = Answer(200, FilterDf(deploy, tbl, s, e))
    /\ arg' = FilterDfArg(deploy, tbl, s, e)
    /\ body' = NoBody
    /\ UNCHANGED <<cacheVars, urlVars, tbl, today>>

\* GET /api/data
HandleData(fetch) ==
    /\ req.endpoint = "none"
    /\ req' = [NoReq EXCEPT !.endpoint = "data", !.fetch = fetch]
    /\ out' = IF fetch # "ok" \/ CalculateCountsRaises(deploy, tbl) THEN Failed(500)
              ELSE Answer(200, tbl)
    /\ \E floatNull \in FloatNulls(deploy) : body' = ApiDataBody(deploy, tbl, fetch, floatNull)
    /\ arg' = tbl
    /\ UNCHANGED <<cacheVars, urlVars, tbl, today>>

NextFilter ==
    \/ \E fetch \in {"ok", "failed"} : HandleData(fetch)
    \/ \E r \in Requests : HandleFilter(r)
    \/ \E r \in Requests : HandleCounts(r)
    \/ \E s \in RangeEnds, e \in RangeEnds : CallFilterDf(s, e)
SpecFilter == InitFilter /\ [][NextFilter]_vars

\* ------------------------------------------------------------------------
\* The sheets with status columns, and calculate_counts and _df_to_records
\* called on them
\* ------------------------------------------------------------------------
\* rows of such a sheet
MaxCountRows == 2

HalfPastNine == 34200

CountLayouts == {<<OPD_IPD, IPD_STATUS, <<"C", "i", "t", "y">>>>,
                 <<IPD_STATUS, SPACE_STATUS, <<"C", "i", "t", "y">>>>,
                 <<<<"S", "t", "a", "t", "u", "s">>, OPD_IPD, <<"C", "i", "t", "y">>>>,
                 <<SPACE_STATUS, OPD_IPD, <<"C", "i", "t", "y">>>>,
                 <<<<"D", "a", "t", "e">>, <<"S", "l", "o", "t">>, <<"V", "i", "s", "i", "t">>>>}

CountCellsFor(name) ==
    IF name = OPD_IPD
    THEN {Text(<<"O", "P", "D", " ", "C", "o", "m", "p", "l", "e", "t", "e", "d">>), Text(<<" ", "i", "p", "d", " ", "c", "o", "m", "p", "l", "e", "t", "e", "d", " ">>), Text(<<"P", "e", "n", "d", "i", "n", "g">>), NaN}
    ELSE IF name = IPD_STATUS THEN {Text(<<"C", "o", "m", "p", "l", "e", "t", "e", "d">>), NaN}
    ELSE IF name = SPACE_STATUS
    THEN {Text(<<"S", "u", "r", "g", "e", "r", "y", " ", "S", "u", "g", "g", "e", "s", "t", "e", "d">>), Text(<<"d", "i", "a", "g", "n", "o", "s", "t", "i", "c", " ", "s", "u", "g", "g", "e", "s", "t", "e", "d", " ">>), NaN}
    ELSE IF name = <<"S", "t", "a", "t", "u", "s">> THEN {Text(<<"S", "u", "r", "g", "e", "r", "y", " ", "S", "u", "g", "g", "e", "s", "t", "e", "d">>), NaN}
    ELSE IF name = <<"D", "a", "t", "e">> THEN {Stamp(Day15, 0), NaN}
    ELSE IF name = <<"S", "l", "o", "t">> THEN {Time(HalfPastNine), Text(<<"w", "a", "l", "k", "-", "i", "n">>)}
    ELSE IF name = <<"V", "i", "s", "i", "t">> THEN {Stamp(Day31, Noon), Text(<<"n", "/", "a">>)}
    ELSE {Text(<<"P", "u", "n", "e">>)}

CountRowsOf(cols) ==
    {<<a, b, c>> : a \in CountCellsFor(cols[1]), b \in CountCellsFor(cols[2]),
                   c \in CountCellsFor(cols[3])}

\* a sheet without columns has no rows
NoColumns == [cols |-> <<>>, rows |-> <<>>]
CountSheets ==
    {NoColumns} \cup
    UNION {{[cols |-> c, rows |-> rs] : rs \in SeqsUpTo(CountRowsOf(c), MaxCountRows)} :
              c \in CountLayouts}

CountRequests ==
    {NoReq,
     [NoReq EXCEPT !.fetch = "failed"],
     [NoReq EXCEPT !.field = OPD_IPD, !.q = <<"p", "e", "n", "d", "i", "n", "g">>],
     [NoReq EXCEPT !.field = <<"s", "l", "o", "t">>, !.q = <<"0", "9", ":", "3", "0", ":", "0", "0">>],
     [NoReq EXCEPT !.type = <<"c", "u", "s", "t", "o", "m">>, !.start = <<"2", "0", "2", "4", "-", "0", "1", "-", "1", "5">>, !.end = <<"2", "0", "2", "4", "-", "0", "1", "-", "3", "1">>]}

InitCounts == InitFilterOn(CountSheets)

\* the function raised
Raised == [status |-> -1, frame |-> <<>>]

\* calculate_counts(df) called on the fetched table
CallCalculateCounts ==
    /\ req.endpoint = "none"
    /\ req' = [NoReq EXCEPT !.endpoint = "calculate_counts"]
    /\ out' = IF CalculateCountsRaises(deploy, tbl) THEN Raised ELSE Answer(200, tbl)
    /\ body' = IF CalculateCountsRaises(deploy, tbl) THEN NoBody
               ELSE [keys |-> CountKeys(deploy),
                     counts |-> CalculateCounts(deploy, tbl),
                     data |-> <<>>]
    /\ arg' = tbl
    /\ UNCHANGED <<cacheVars, urlVars, tbl, today>>

\* _df_to_records(df) called on the fetched table
CallDfToRecords ==
    /\ req.endpoint = "none"
    /\ req' = [NoReq EXCEPT !.endpoint = "_df_to_records"]
    /\ out' = Answer(200, tbl)
    /\ \E floatNull \in FloatNulls(deploy) :
        body' = [keys |-> {}, counts |-> NoCounts, data |-> DfToRecords(deploy, tbl, floatNull)]
    /\ arg' = tbl
    /\ UNCHANGED <<cacheVars, urlVars, tbl, today>>

NextCounts ==
    \/ CallCalculateCounts
    \/ CallDfToRecords
    \/ \E fetch \in {"ok", "failed"} : HandleData(fetch)
    \/ \E r \in CountRequests : HandleFilter(r)
    \/ \E r \in CountRequests : HandleCounts(r)
SpecCounts == InitCounts /\ [][NextCounts]_vars

\* ------------------------------------------------------------------------
\* Claims about the filters
\* ------------------------------------------------------------------------
\* the column filter_df takes as the date column, 0 when it finds none
DateColumnOf(d, df) ==
    IF d = "index"
    THEN IF DateColsIndex(df) = {} THEN 0 ELSE Min(DateColsIndex(df))
    ELSE IF HasCol(df, DATE_COLUMN_NAME) THEN ColIndex(df, DATE_COLUMN_NAME) ELSE 0

\* the rows whose cell i is a date, the day of it within [s, e]
RowsInRange(rows, i, s, e) ==
    LET Within(row) == /\ IsStamp(row[i])
                       /\ s <= row[i][2]
                       /\ row[i][2] <= e
    IN  SelectSeq(rows, Within)

\* C8: filter_df called with a start and an end day returns, when the table
\* has a date column, exactly the rows whose date, its time of day dropped,
\* lies in [start, end] with both ends included, rows with a missing or
\* unreadable date left out; when the table has no date column it returns
\* the table with all its rows.
C8_DateRangeKeepsExactlyInRange ==
    (req.endpoint = "filter_df" /\ req.start # None /\ req.end # None) =>
        LET i == DateColumnOf(deploy, tbl)
            got == out.frame[1]
        IN  IF i = 0 THEN got = tbl
            ELSE /\ got.cols = tbl.cols
                 /\ got.rows = RowsInRange(CoerceColumn(tbl, i).rows, i,
                                           TimeOf(req.start), TimeOf(req.end))

\* a call whose range ends on the 31st: the row dated the 31st at noon is kept
\* and the row without a date is dropped
C8_Witness ==
    /\ req.endpoint = "filter_df"
    /\ req.start = At(Day15 + 1)
    /\ req.end = At(Day31)
    /\ DateColumnOf(deploy, tbl) = 1
    /\ Len(tbl.rows) = 2
    /\ ~IsStamp(tbl.rows[1][1])
    /\ tbl.rows[2][1] = Stamp(Day31, Noon)
    /\ out.frame[1].rows = <<tbl.rows[2]>>

\* the column the field names as the claim has it: an alias names the first
\* column whose lower-cased name contains it, any other field the first column
\* whose lower-cased name equals it; 0 when there is none
ClaimedColumn(df, field) ==
    LET hits == IF Lower(field) \in KnownAliases
                THEN {i \in 1..Len(df.cols) : Contains(Lower(df.cols[i]), Lower(field))}
                ELSE {i \in 1..Len(df.cols) : Lower(df.cols[i]) = Lower(field)}
    IN  IF hits = {} THEN 0 ELSE Min(hits)

ClaimedFieldFilter(df, field, q) ==
    LET i == ClaimedColumn(df, field)
    IN  IF i = 0 THEN df ELSE KeepEqual(df, i, q)

IsAllBd(r) ==
    /\ Lower(r.field) = <<"b", "d">>
    /\ Lower(r.q) = <<"a", "l", "l", "_", "b", "d">>

\* C9: in app.py, /api/filter and /api/counts asked with a field and a value
\* (other than the all_bd sentinel) answer with the date-filtered rows whose
\* cell in the resolved column, as a lower-cased string, equals the lower-cased
\* value; an alias (bd, city, hospital, state) resolves to the first column
\* whose name contains it; with no column resolved all rows are kept.
C9_FieldFilterResolvesAlias ==
    (/\ deploy = "app"
     /\ req.endpoint \in {"filter", "counts"}
     /\ out.status = 200
     /\ req.field # <<>> /\ req.q # <<>>
     /\ ~IsAllBd(req)) =>
        out.frame[1] = ClaimedFieldFilter(ApplyRange(deploy, tbl, DateRangeApp(req, today)),
                                          req.field, req.q)

\* the answer to the request without its field and q
AnswerWithoutField ==
    LET r == [req EXCEPT !.field = <<>>, !.q = <<>>]
    IN  IF req.endpoint = "filter" THEN ApiFilter(deploy, tbl, r, today)
                                   ELSE ApiCounts(deploy, tbl, r, today)

\* C10: on /api/filter and /api/counts a request with field=bd and q=all_bd,
\* in any letter case, removes no rows: the answer is the answer to the same
\* request without field and q, whatever the BD column holds.
C10_AllBdRemovesNoRows ==
    (req.endpoint \in {"filter", "counts"} /\ IsAllBd(req)) =>
        out = AnswerWithoutField

\* C11: filter_df and the field filter leave the table they are given as it
\* was: after the call it has the same rows, columns and cell values, the
\* type of the date column included.
C11_FiltersLeaveInputUnchanged ==
    req.endpoint # "none" => arg = tbl

\* the date range and the field filter of the handler that answered
RangeOf(d, r, t) == IF d = "index" THEN DateRangeIndex(r, t) ELSE DateRangeApp(r, t)
FieldStage(d, ep, df, f, q) ==
    IF d = "index" THEN FieldFilterIndex(df, f, q)
    ELSE IF d = "app" /\ ep = "filter" THEN FieldFilterExact(df, f, q)
    ELSE FieldFilterAlias(df, f, q)

\* the column that field filter compares, 0 when it compares none
FieldColumnOf(d, ep, df, f, q) ==
    IF d = "index"
    THEN LET hits == {i \in 1..Len(df.cols) : Contains(Lower(df.cols[i]), Lower(f))}
         IN  IF Lower(q) = <<"a", "l", "l", "_", "b", "d">> \/ hits = {} THEN 0 ELSE Min(hits)
    ELSE IF d = "app" /\ ep = "filter"
    THEN LET hits == {i \in 1..Len(df.cols) : Lower(df.cols[i]) = Lower(f)}
         IN  IF hits = {} THEN 0 ELSE Min(hits)
    ELSE IF Lower(f) = <<"b", "d">> /\ Lower(q) = <<"a", "l", "l", "_", "b", "d">> THEN 0 ELSE TargetColumn(df, f)

\* the rows of the table that satisfy the date predicate and the field
\* predicate, each taken on the table as fetched
RowsSatisfyingBoth(d, ep, df, rg, f, q) ==
    LET base == FilterDfArg(d, df, rg[1], rg[2])
        dc == DateColumnOf(d, df)
        fc == FieldColumnOf(d, ep, df, f, q)
        keep == [k \in 1..Len(df.rows) |->
                    /\ dc # 0 => DateMask(base, dc, TimeOf(rg[1]), TimeOf(rg[2]))[k]
                    /\ fc # 0 => EqualsMask(df, fc, q)[k]]
    IN  KeepRows(base.rows, keep)

\* C12: for a request with a date range and a field filter, the date filter
\* followed by the field filter (what /api/filter does) gives the same rows as
\* the field filter followed by the date filter, and the same rows as keeping
\* the rows of the table that satisfy both predicates.
C12_FiltersCommute ==
    (/\ req.endpoint = "filter"
     /\ out.status = 200
     /\ req.field # <<>> /\ req.q # <<>>
     /\ RangeOf(deploy, req, today) # NoRange) =>
        LET rg == RangeOf(deploy, req, today)
            fieldFirst == ApplyRange(deploy,
                                     FieldStage(deploy, req.endpoint, tbl, req.field, req.q), rg)
            both == RowsSatisfyingBoth(deploy, req.endpoint, tbl, rg, req.field, req.q)
        IN  /\ out.frame[1].rows = both
            /\ fieldFirst.rows = both

\* C13: /api/filter asked without type, start, end, field and q answers with
\* the fetched table unchanged, the same rows in the same order, and with the
\* counts /api/data gives for that table.
C13_NoFilterIsIdentity ==
    (/\ req.endpoint = "filter"
     /\ out.status = 200
     /\ req.type = <<>> /\ req.start = <<>> /\ req.end = <<>>
     /\ req.field = <<>> /\ req.q = <<>>) =>
        /\ out.frame[1] = tbl
        /\ body.counts = ApiDataBody(deploy, tbl, "ok", TRUE).counts

\* such a request answered for a table of two rows
C13_Witness ==
    /\ req.endpoint = "filter"
    /\ out.status = 200
    /\ req.type = <<>> /\ req.start = <<>> /\ req.end = <<>>
    /\ req.field = <<>> /\ req.q = <<>>
    /\ Len(tbl.rows) = 2
    /\ Len(out.frame[1].rows) = 2
    /\ body.counts.total_records = 2

\* ------------------------------------------------------------------------
\* Claims about the counts and the records
\* ------------------------------------------------------------------------
\* C14: the total_records of calculate_counts is the number of rows of the
\* table it is given, the empty table and tables without status columns
\* included, and the total_records of an answer is the number of row objects
\* in its data, the number of rows left after filtering.
C14_TotalRecordsIsRowCount ==
    /\ (req.endpoint = "calculate_counts" /\ out.status = 200) =>
            body.counts.total_records = Len(tbl.rows)
    /\ (req.endpoint \in {"filter", "data"} /\ out.status = 200) =>
            /\ body.counts.total_records = Len(body.data)
            /\ body.counts.total_records = Len(out.frame[1].rows)
    /\ (req.endpoint = "counts" /\ out.status = 200) =>
            body.counts.total_records = Len(out.frame[1].rows)

\* /api/filter with a field filter that keeps one of two rows
C14_Witness ==
    /\ req.endpoint = "filter"
    /\ req.field = OPD_IPD
    /\ out.status = 200
    /\ Len(tbl.rows) = 2
    /\ Len(body.data) = 1
    /\ body.counts.total_records = 1

\* C15: for a table with the column "OPD&IPD", opd_count is the number of rows
\* whose value there, trimmed and lower-cased, is "opd completed", ipd_count the
\* number of those whose value is "ipd completed"; no other value counts, so
\* the two together never exceed total_records.
C15_OpdIpdCountedFromStatusColumn ==
    (req.endpoint = "calculate_counts" /\ out.status = 200 /\ HasCol(tbl, OPD_IPD)) =>
        /\ body.counts.opd_count = CountIn(tbl, OPD_IPD, <<"o", "p", "d", " ", "c", "o", "m", "p", "l", "e", "t", "e", "d">>)
        /\ body.counts.ipd_count = CountIn(tbl, OPD_IPD, <<"i", "p", "d", " ", "c", "o", "m", "p", "l", "e", "t", "e", "d">>)
        /\ body.counts.opd_count + body.counts.ipd_count <= body.counts.total_records

FixedCountKeys ==
    {"opd_count", "ipd_count", "surgery_suggested", "diagnostic_suggested", "total_records"}

\* C16: calculate_counts of app.py and of api/index.py raises for no table, a
\* table without status columns, without rows or without columns included,
\* and its summary has every key of the fixed set, with 0 for each counter
\* whose column the table lacks.
C16_CalculateCountsIsTotal ==
    (req.endpoint = "calculate_counts" /\ deploy # "netlify") =>
        /\ out # Raised
        /\ FixedCountKeys \subseteq body.keys
        /\ ~HasCol(tbl, OPD_IPD) => body.counts.opd_count = 0
        /\ (~HasCol(tbl, OPD_IPD) /\ ~HasCol(tbl, IPD_STATUS)) => body.counts.ipd_count = 0
        /\ (deploy = "app" /\ ~HasCol(tbl, SPACE_STATUS)) =>
                /\ body.counts.surgery_suggested = 0
                /\ body.counts.diagnostic_suggested = 0

\* the value claim C17 gives a cell in a row object
ClaimedRecordCell(c) ==
    IF IsStamp(c) THEN Text(DateStr(c[2]))
    ELSE IF IsTime(c) THEN Text(TimeStr(c[2]))
    ELSE IF IsNull(c) THEN Null
    ELSE c

\* C17: _df_to_records returns one row object per row of the table, in the
\* order of the rows (none for an empty table), in which a date cell is the
\* string YYYY-MM-DD, a time cell the string HH:MM:SS, a null, NaN or NaT
\* cell is null and any other cell is the value of the table.
C17_RecordsRenderCells ==
    req.endpoint = "_df_to_records" =>
        /\ Len(body.data) = Len(tbl.rows)
        /\ \A r \in 1..Len(tbl.rows) : \A i \in 1..Len(tbl.cols) :
                body.data[r][i] = ClaimedRecordCell(tbl.rows[r][i])

\* ------------------------------------------------------------------------
\* Claims about the request parameters
\* ------------------------------------------------------------------------
\* C18: when start and end are both valid YYYY-MM-DD dates, /api/filter and
\* /api/counts filter by the range [start, end], whatever type is: a preset,
\* an unknown name or absent.
C18_StartEndOverrideType ==
    (/\ req.endpoint \in {"filter", "counts"}
     /\ req.fetch = "ok"
     /\ req.start # <<>> /\ req.end # <<>>
     /\ StrpDate(req.start) # None /\ StrpDate(req.end) # None) =>
        /\ out.status = 200
        /\ out.frame[1] =
              FieldStage(deploy, req.endpoint,
                         ApplyRange(deploy, tbl, <<StrpDate(req.start), StrpDate(req.end)>>),
                         req.field, req.q)

\* a start or an end that is given and is no YYYY-MM-DD date
HasBadDate(r) ==
    \/ r.start # <<>> /\ StrpDate(r.start) = None
    \/ r.end # <<>> /\ StrpDate(r.end) = None

\* C19: /api/filter and /api/counts answer a request whose start or end is
\* not a valid YYYY-MM-DD date with 400 and a body {error, success: false},
\* whether or not the spreadsheet can be fetched, and answer 500 only when
\* fetching or parsing the spreadsheet failed.
C19_BadDateIs400 ==
    req.endpoint \in {"filter", "counts"} =>
        /\ HasBadDate(req) => (out.status = 400 /\ body.keys = {"error", "success"})
        /\ out.status = 500 => req.fetch # "ok"

\* C20: for the same type, start, end, field and q, /api/counts answers as
\* /api/filter does and its summary has the counters of the counts object of
\* /api/filter: both count over the same filtered rows.
C20_CountsAgreeWithFilter ==
    req.endpoint = "counts" =>
        LET f == ApiFilter(deploy, tbl, [req EXCEPT !.endpoint = "filter"], today)
        IN  /\ out.status = f.status
            /\ out.status = 200 => body.counts = CalculateCounts(deploy, f.frame[1])

\* ------------------------------------------------------------------------
\* Sheets whose date column holds dates written as text
\* ------------------------------------------------------------------------
MaxOrderRows == 2

OrderLayouts == {<<<<"D", "a", "t", "e">>, <<"B", "D">>>>, <<<<"V", "i", "s", "i", "t", " ", "D", "a", "t", "e">>, <<"B", "D">>>>}
OrderRowsOf ==
    {<<d, n>> : d \in {Stamp(Day15, 0), Stamp(Day31, Noon), Text(<<"2", "0", "2", "4", "-", "0", "1", "-", "2", "0">>), Text(<<"n", "/", "a">>)},
                n \in {Text(<<"A", "l", "i", "c", "e">>), Text(<<"B", "o", "b">>)}}
OrderSheets ==
    {[cols |-> c, rows |-> rs] : c \in OrderLayouts, rs \in SeqsUpTo(OrderRowsOf, MaxOrderRows)}

\* requests with and without a range (api/index.py reads start and end only
\* with type=custom), with and without a field filter
OrderRequests ==
    {[NoReq EXCEPT !.type = w[1], !.start = w[2], !.end = w[3], !.field = f[1], !.q = f[2]] :
        w \in {<<<<>>, <<>>, <<>>>>,
               <<<<"c", "u", "s", "t", "o", "m">>, <<"2", "0", "2", "4", "-", "0", "1", "-", "1", "5">>, <<"2", "0", "2", "4", "-", "0", "1", "-", "3", "1">>>>,
               <<<<"c", "u", "s", "t", "o", "m">>, <<"2", "0", "2", "4", "-", "0", "1", "-", "1", "6">>, <<"2", "0", "2", "4", "-", "0", "1", "-", "3", "1">>>>},
        f \in {<<<<>>, <<>>>>, <<<<"b", "d">>, <<"a", "l", "i", "c", "e">>>>, <<<<"B", "D">>, <<"B", "O", "B">>>>}}

InitOrder == InitFilterOn(OrderSheets)
NextOrder ==
    \/ \E s \in RangeEnds, e \in RangeEnds : CallFilterDf(s, e)
    \/ \E r \in OrderRequests : HandleFilter(r)
    \/ \E r \in OrderRequests : HandleCounts(r)
SpecOrder == InitOrder /\ [][NextOrder]_vars

\* ------------------------------------------------------------------------
\* Claims about the order of the rows
\* ------------------------------------------------------------------------
\* a row of the answer is a row of the table, its cell in column i (the date
\* column, 0 for none) as it was or as to_datetime reads it
SameRow(got, given, i) ==
    \/ got = given
    \/ i # 0 /\ got = [given EXCEPT ![i] = ToDatetimeCell(given[i])]

\* res is inp with some rows left out, the others in their order
RECURSIVE IsSubsequence(_, _, _)
IsSubsequence(res, inp, i) ==
    IF res = <<>> THEN TRUE
    ELSE IF inp = <<>> THEN FALSE
    ELSE IF SameRow(res[1], inp[1], i) THEN IsSubsequence(Tail(res), Tail(inp), i)
    ELSE IsSubsequence(res, Tail(inp), i)

ClaimedStatusColumn(df) ==
    IF HasCol(df, SPACE_STATUS) THEN ColIndex(df, SPACE_STATUS)
    ELSE IF Len(df.cols) > 0 THEN 1 ELSE 0
ClaimedStatusCount(df, label) ==
    IF ClaimedStatusColumn(df) = 0 THEN 0
    ELSE CountEqual(CleanedColumn(df, ClaimedStatusColumn(df)), label)

\* C23: in the summaries that have them (app.py, api/index.py),
\* surgery_suggested, diagnostic_suggested and surgery_not_suggested are the
\* numbers of rows whose trimmed, lower-cased cell in the second status
\* column is the label; that column is the one called ' Status' and, when no
\* column has that name, the first column of the table.
C23_SuggestedCountedFromStatusColumn ==
    (req.endpoint = "calculate_counts" /\ out.status = 200 /\ deploy # "netlify") =>
        /\ body.counts.surgery_suggested = ClaimedStatusCount(tbl, <<"s", "u", "r", "g", "e", "r", "y", " ", "s", "u", "g", "g", "e", "s", "t", "e", "d">>)
        /\ body.counts.diagnostic_suggested = ClaimedStatusCount(tbl, <<"d", "i", "a", "g", "n", "o", "s", "t", "i", "c", " ", "s", "u", "g", "g", "e", "s", "t", "e", "d">>)
        /\ "surgery_not_suggested" \in body.keys =>
              body.counts.surgery_not_suggested = ClaimedStatusCount(tbl, <<"s", "u", "r", "g", "e", "r", "y", " ", "n", "o", "t", " ", "s", "u", "g", "g", "e", "s", "t", "e", "d">>)

\* ipd_count as the claim has it: from 'OPD&IPD' when the table has that
\* column, from 'IPD Status' only when it has not
ClaimedIpdCount(df) ==
    IF HasCol(df, OPD_IPD) THEN CountIn(df, OPD_IPD, <<"i", "p", "d", " ", "c", "o", "m", "p", "l", "e", "t", "e", "d">>)
    ELSE CountIn(df, IPD_STATUS, <<"c", "o", "m", "p", "l", "e", "t", "e", "d">>)

\* C24: ipd_count is the number of "ipd completed" rows of 'OPD&IPD' whenever
\* the table has that column, also when that number is 0; only for a table
\* without 'OPD&IPD' is it the number of "completed" rows of 'IPD Status'.
C24_IpdFallbackOnlyWithoutPrimary ==
    (req.endpoint = "calculate_counts" /\ out.status = 200) =>
        body.counts.ipd_count = ClaimedIpdCount(tbl)

\* ------------------------------------------------------------------------
\* Claims about /health
\* ------------------------------------------------------------------------
\* the last answer was a health report
HealthReported == req.endpoint = "health" /\ out.status = 200

\* C21: where /health exists (app.py, netlify), every health report says
\* "active" exactly when some earlier call of fetch_excel has fetched and
\* stored a table, "empty" otherwise (so failed fetches never make it
\* "active"), and a report after an "active" report is "active" again.
C21_HealthActiveIffFetched ==
    [][HealthCheck =>
        /\ deploy = "app" =>
              (body'.cache_status = "active" <=> stamp_of # None)
        /\ (HealthReported /\ body.cache_status = "active") =>
              body'.cache_status = "active"]_vars

\* a health report after a fetch that succeeded and a later one that failed,
\* the clock moved past the cache window
C21_Witness ==
    /\ HealthReported
    /\ body.cache_status = "active"
    /\ df_cache = Df(1)
    /\ http_count = 2
    /\ now > CACHE_SECONDS
    /\ pc[1] = "idle"

\* ------------------------------------------------------------------------
\* Requests served one after another from one cache entry
\* ------------------------------------------------------------------------
MaxServeRows == 2

ServeLayouts == {<<<<"D", "a", "t", "e">>, <<"B", "D">>>>, <<<<"V", "i", "s", "i", "t", " ", "D", "a", "t", "e">>, <<"S", "t", "a", "t", "u", "s">>>>}
ServeRowsOf ==
    {<<d, n>> : d \in {Stamp(Day15, 0), Stamp(Day31, Noon), Text(<<"2", "0", "2", "4", "-", "0", "1", "-", "2", "0">>)},
                n \in {Text(<<"A", "l", "i", "c", "e">>), Text(<<" ", "B", "o", "b", " ">>)}}
ServeSheets ==
    {[cols |-> c, rows |-> rs] : c \in ServeLayouts, rs \in SeqsUpTo(ServeRowsOf, MaxServeRows)}
ServeRequests ==
    {NoReq,
     [NoReq EXCEPT !.type = <<"c", "u", "s", "t", "o", "m">>, !.start = <<"2", "0", "2", "4", "-", "0", "1", "-", "1", "6">>, !.end = <<"2", "0", "2", "4", "-", "0", "1", "-", "3", "1">>],
     [NoReq EXCEPT !.field = <<"b", "d">>, !.q = <<"a", "l", "i", "c", "e">>]}
ServeFields == {<<"B", "D">>, <<"s", "t", "a", "t", "u", "s">>, <<"c", "i", "t", "y">>}

\* app.py 94-97, 126 (netlify 88-91, 120): fetch_excel returns _df_cache
\* itself; api/index.py 73-74, 85: it returns _df_cache.copy()
FetchReturnsCache(d) == d # "index"

\* _df_to_records formatting the columns of the table it is given
DfToRecordsArgInPlace(d, df) == [cols |-> df.cols, rows |-> DfToRecordsApp(df)]
\* app.py 62-64 (netlify 56-58, api/index.py 49-51): _df_to_records formats
\* df_copy = df.copy() and leaves the table it is given as it was
DfToRecordsArg(d, df) == df

\* the table fetch_excel returned, as the handler leaves it: api_filter and
\* api_counts work on out = df.copy() (app.py 287, 412, netlify 279, 393,
\* api/index.py 200), api_unique and the debug routes only read it or take
\* df.head(), api_data hands it to calculate_counts, which only reads it, and
\* to _df_to_records
TableAfter(d, ep, df) == IF ep = "data" THEN DfToRecordsArg(d, df) ELSE df
\* _df_cache after the handler
CacheAfter(d, ep, cache) ==
    IF FetchReturnsCache(d) THEN <<TableAfter(d, ep, cache[1])>> ELSE cache

\* df.head()
HeadOf(df) == [cols |-> df.cols, rows |-> SubSeq(df.rows, 1, IF Len(df.rows) < 5 THEN Len(df.rows) ELSE 5)]

\* app.py 340-363 (netlify 356-379): the column api_unique reads, 0 for none
UniqueColumn(df, field) ==
    LET hits == {i \in 1..Len(df.cols) : Contains(Lower(df.cols[i]), Lower(field))}
    IN  IF hits = {} THEN 0 ELSE Min(hits)
\* df[preferred].dropna().unique().astype(str), as a set
UniqueValues(df, i) ==
    {CellStr(df.rows[r][i]) : r \in {k \in 1..Len(df.rows) : ~IsNull(df.rows[k][i])}}
\* app.py 387-403: the values /api/debug/unique_status_values lists
StatusValues(df) ==
    LET i == ColIndex(df, <<"S", "t", "a", "t", "u", "s">>)
    IN  {CleanedColumn(df, i)[r] : r \in 1..Len(df.rows)}

\* a cache entry holding the table as fetch_excel stored it; tbl keeps that
\* table for comparison
InitServe ==
    /\ deploy \in FilterDeploys
    /\ sheet_url_set = TRUE
    /\ workers = {}
    /\ now = 0 /\ ticks = 0
    /\ \E sh \in ServeSheets :
          /\ tbl = Fetched(deploy, ReadExcel(sh))
          /\ df_cache = <<tbl>>
    /\ last_fetched = At(0)
    /\ http_count = 1 /\ stamp_of = None
    /\ pc = [t \in Threads |-> "idle"]
    /\ loc_now = [t \in Threads |-> None]
    /\ seen = [t \in Threads |-> None]
    /\ resp = [t \in Threads |-> NoResp]
    /\ loc_df = [t \in Threads |-> None]
    /\ ret = [t \in Threads |-> None]
    /\ UrlIdle
    /\ today = Day31
    /\ req = NoReq
    /\ out = NoAnswer
    /\ arg = tbl
    /\ body = NoBody

\* what a handler leaves alone
serveFrame == <<deploy, sheet_url_set, workers, now, ticks, last_fetched, http_count, stamp_of,
                pc, loc_now, seen, resp, loc_df, ret, urlVars, tbl, today>>

\* GET /api/data
ServeData ==
    /\ req' = [NoReq EXCEPT !.endpoint = "data"]
    /\ out' = IF CalculateCountsRaises(deploy, df_cache[1]) THEN Failed(500)
              ELSE Answer(200, df_cache[1])
    /\ \E floatNull \in FloatNulls(deploy) :
          body' = ApiDataBody(deploy, df_cache[1], "ok", floatNull)
    /\ df_cache' = CacheAfter(deploy, "data", df_cache)
    /\ UNCHANGED <<serveFrame, arg>>

\* GET /api/filter; arg is the copy filter_df worked on
ServeFilter(r) ==
    /\ req' = [r EXCEPT !.endpoint = "filter"]
    /\ LET a == ApiFilter(deploy, df_cache[1], r, today)
       IN  /\ out' = a
           /\ \E floatNull \in FloatNulls(deploy) : body' = ApiFilterBody(deploy, a, floatNull)
    /\ arg' = ApplyRangeArg(deploy, df_cache[1], RangeOf(deploy, r, today))
    /\ df_cache' = CacheAfter(deploy, "filter", df_cache)
    /\ UNCHANGED serveFrame

\* GET /api/counts
ServeCounts(r) ==
    /\ req' = [r EXCEPT !.endpoint = "counts"]
    /\ LET a == ApiCounts(deploy, df_cache[1], r, today)
       IN  /\ out' = a
           /\ body' = ApiCountsBody(deploy, a)
    /\ arg' = IF deploy = "index" THEN df_cache[1]
              ELSE ApplyRangeArg(deploy, df_cache[1], RangeOf(deploy, r, today))
    /\ df_cache' = CacheAfter(deploy, "counts", df_cache)
    /\ UNCHANGED serveFrame

\* GET /api/unique/<field_name>: app.py 340-363, netlify 356-379; api/index.py
\* has no such route
ServeUnique(f) ==
    /\ req' = [NoReq EXCEPT !.endpoint = "unique", !.field = f]
    /\ LET i == UniqueColumn(df_cache[1], f)
       IN  IF deploy = "index" \/ i = 0
           THEN out' = Failed(404) /\ body' = ErrorBody({"error"})
           ELSE /\ out' = Failed(200)
                /\ body' = [keys |-> {}, values |-> UniqueValues(df_cache[1], i)]
    /\ df_cache' = CacheAfter(deploy, "unique", df_cache)
    /\ UNCHANGED <<serveFrame, arg>>

\* GET /api/debug/columns: app.py 366-385, api/index.py 238-256; netlify has
\* no such route
ServeDebugColumns ==
    /\ req' = [NoReq EXCEPT !.endpoint = "debug_columns"]
    /\ IF deploy = "netlify"
       THEN out' = Failed(404) /\ body' = ErrorBody({"error"})
       ELSE /\ out' = Failed(200)
            /\ \E floatNull \in FloatNulls(deploy) :
                  body' = [keys |-> {"success", "columns", "sample_data"},
                           columns |-> df_cache[1].cols,
                           data |-> DfToRecords(deploy, HeadOf(df_cache[1]), floatNull)]
    /\ df_cache' = CacheAfter(deploy, "debug_columns", df_cache)
    /\ UNCHANGED <<serveFrame, arg>>

\* GET /api/debug/unique_status_values: app.py 387-403 only
ServeDebugStatus ==
    /\ req' = [NoReq EXCEPT !.endpoint = "debug_status"]
    /\ IF deploy # "app"
       THEN out' = Failed(404) /\ body' = ErrorBody({"error"})
       ELSE IF ~HasCol(df_cache[1], <<"S", "t", "a", "t", "u", "s">>)
       THEN out' = Failed(404) /\ body' = ErrorBody({"success", "error"})
       ELSE /\ out' = Failed(200)
            /\ body' = [keys |-> {"success", "column", "unique_values"},
                        values |-> StatusValues(df_cache[1])]
    /\ df_cache' = CacheAfter(deploy, "debug_status", df_cache)
    /\ UNCHANGED <<serveFrame, arg>>

NextServe ==
    \/ ServeData
    \/ \E r \in ServeRequests : ServeFilter(r)
    \/ \E r \in ServeRequests : ServeCounts(r)
    \/ \E f \in ServeFields : ServeUnique(f)
    \/ ServeDebugColumns
    \/ ServeDebugStatus
SpecServe == InitServe /\ [][NextServe]_vars

\* ------------------------------------------------------------------------
\* Claims about the cached table
\* ------------------------------------------------------------------------
\* C25: whatever requests were served from the cache entry, the cached table
\* is the table that was stored (same columns, rows, order and cell values),
\* and an /api/data answer is the whole stored table with its counts.
C25_ServingLeavesCacheUnchanged ==
    /\ df_cache = <<tbl>>
    /\ req.endpoint = "data" =>
          /\ out = Answer(200, tbl)
          /\ body.counts = CalculateCounts(deploy, tbl)
          /\ \E floatNull \in FloatNulls(deploy) : body.data = DfToRecords(deploy, tbl, floatNull)

\* /api/filter, handed the cached object itself, answered with one row of the
\* two after its date range dropped the other; the cache still has both
C25_Witness ==
    /\ req.endpoint = "filter"
    /\ req.start # <<>>
    /\ FetchReturnsCache(deploy)
    /\ out.status = 200
    /\ Len(out.frame[1].rows) = 1
    /\ Len(df_cache[1].rows) = 2
    /\ df_cache[1].rows[1] # df_cache[1].rows[2]

\* ------------------------------------------------------------------------
\* Requests on different days, and get_range called by itself
\* ------------------------------------------------------------------------
MaxRangeRows == 2

\* the days around the ends of a year and of February in a leap year, and a
\* day in the middle of a week and of a month
RangeDays == {DateOf(2023, 12, 31), DateOf(2024, 1, 1), DateOf(2024, 1, 17), DateOf(2024, 2, 28),
              DateOf(2024, 2, 29), DateOf(2024, 3, 1), DateOf(2024, 12, 31)}
RangeRowsOf ==
    {<<d, Text(<<"A", "l", "i", "c", "e">>)>> : d \in {Stamp(Day15, 0), Stamp(DateOf(2024, 2, 29), Noon), Stamp(DateOf(2025, 6, 1), 0)}}
RangeSheets ==
    {[cols |-> <<<<"D", "a", "t", "e">>, <<"B", "D">>>>, rows |-> rs] : rs \in SeqsUpTo(RangeRowsOf, MaxRangeRows)}

\* every name either get_range knows, in other letter cases too, and names
\* neither knows
RangeNames ==
    {<<"t", "o", "d", "a", "y">>, <<"y", "e", "s", "t", "e", "r", "d", "a", "y">>, <<"t", "o", "m", "o", "r", "r", "o", "w">>, <<"l", "a", "s", "t", "7">>, <<"l", "a", "s", "t", "3", "0">>, <<"n", "e", "x", "t", "7">>, <<"n", "e", "x", "t", "3", "0">>,
     <<"t", "h", "i", "s", "w", "e", "e", "k">>, <<"t", "h", "i", "s", "m", "o", "n", "t", "h">>, <<"t", "h", "i", "s", "y", "e", "a", "r">>, <<"l", "a", "s", "t", "_", "7", "_", "d", "a", "y", "s">>, <<"l", "a", "s", "t", "_", "3", "0", "_", "d", "a", "y", "s">>,
     <<"t", "h", "i", "s", "_", "m", "o", "n", "t", "h">>, <<"t", "h", "i", "s", "_", "y", "e", "a", "r">>, <<"T", "o", "d", "a", "y">>, <<"T", "h", "i", "s", "W", "e", "e", "k">>, <<"c", "u", "s", "t", "o", "m">>, <<"a", "l", "l">>, <<"l", "a", "s", "t", "w", "e", "e", "k">>, <<>>}
\* start and end: none, one of the two (well formed or not), both
RangeStartEnds ==
    {<<<<>>, <<>>>>,
     <<<<"2", "0", "2", "4", "-", "0", "2", "-", "0", "1">>, <<>>>>, <<<<>>, <<"2", "0", "2", "4", "-", "0", "2", "-", "0", "1">>>>,
     <<<<"0", "1", "/", "0", "2", "/", "2", "0", "2", "4">>, <<>>>>, <<<<>>, <<"2", "0", "2", "4", "-", "0", "2", "-", "3", "0">>>>,
     <<<<"2", "0", "2", "4", "-", "0", "2", "-", "0", "1">>, <<"2", "0", "2", "4", "-", "1", "2", "-", "3", "1">>>>}
RangeRequests ==
    {[NoReq EXCEPT !.type = ty, !.start = se[1], !.end = se[2]] :
        ty \in {<<>>, <<"t", "o", "d", "a", "y">>, <<"T", "h", "i", "s", "W", "e", "e", "k">>, <<"t", "h", "i", "s", "_", "m", "o", "n", "t", "h">>, <<"c", "u", "s", "t", "o", "m">>, <<"a", "l", "l">>, <<"l", "a", "s", "t", "w", "e", "e", "k">>},
        se \in RangeStartEnds}

InitRange ==
    /\ deploy \in FilterDeploys
    /\ sheet_url_set = TRUE
    /\ workers = {}
    /\ now = 0 /\ ticks = 0 /\ df_cache = None /\ last_fetched = None
    /\ http_count = 0 /\ stamp_of = None
    /\ pc = [t \in Threads |-> "idle"]
    /\ loc_now = [t \in Threads |-> None]
    /\ seen = [t \in Threads |-> None]
    /\ resp = [t \in Threads |-> NoResp]
    /\ loc_df = [t \in Threads |-> None]
    /\ ret = [t \in Threads |-> None]
    /\ UrlIdle
    /\ \E sh \in RangeSheets : tbl = Fetched(deploy, ReadExcel(sh))
    /\ today \in RangeDays
    /\ req = NoReq
    /\ out = NoAnswer
    /\ arg = tbl
    /\ body = NoBody

\* get_range(filter_type) called by itself
CallGetRange(ft) ==
    /\ req.endpoint = "none"
    /\ req' = [NoReq EXCEPT !.endpoint = "get_range", !.type = ft]
    /\ out' = Failed(200)
    /\ body' = [keys |-> {}, range |-> GetRange(deploy, ft, today)]
    /\ UNCHANGED <<cacheVars, urlVars, tbl, today, arg>>

NextRange ==
    \/ \E ft \in RangeNames : CallGetRange(ft)
    \/ \E r \in RangeRequests : HandleFilter(r)
    \/ \E r \in RangeRequests : HandleCounts(r)
SpecRange == InitRange /\ [][NextRange]_vars

\* ------------------------------------------------------------------------
\* Claims about requests without a whole date range
\* ------------------------------------------------------------------------
\* the type as the handler hands it to get_range: app.py lower-cases it
TypeRead(d, ty) == IF d = "index" THEN ty ELSE Lower(ty)
\* the request resolves no range: start or end is missing and the type is
\* absent or a name get_range does not know
ResolvesNoRange(d, r, t) ==
    /\ r.start = <<>> \/ r.end = <<>>
    /\ r.type = <<>> \/ GetRange(d, TypeRead(d, r.type), t) = NoRange

\* C26: a request (no field filter) with only one of start and end and no
\* type, with a type name get_range does not know, or with no date parameter
\* at all is answered 200 with every row of the table; and whenever get_range
\* recognizes a name, the range it returns has start <= end.
C26_NoRangeKeepsEveryRow ==
    /\ (/\ req.endpoint \in {"filter", "counts"}
        /\ req.fetch = "ok"
        /\ ResolvesNoRange(deploy, req, today)) => out = Answer(200, tbl)
    /\ (req.endpoint = "get_range" /\ body.range # NoRange) =>
          /\ body.range[1] # None /\ body.range[2] # None
          /\ TimeOf(body.range[1]) <= TimeOf(body.range[2])

\* /api/filter asked with a start alone, later than a row of the table,
\* answered with both rows
C26_Witness ==
    /\ req.endpoint = "filter"
    /\ req.type = <<>> /\ req.end = <<>>
    /\ StrpDate(req.start) # None
    /\ Len(tbl.rows) = 2
    /\ tbl.rows[1][1] = Stamp(Day15, 0)
    /\ TimeOf(StrpDate(req.start)) > Day15
    /\ out.status = 200
    /\ Len(out.frame[1].rows) = 2

====
